---- MODULE Spec2Model ----
(***************************************************************************)
(* Model of the finance scripts: the StockDataUpdater and its database     *)
(* tables, the bulk import / bulk update loops, the buy-and-hold backtest   *)
(* with its stop-loss computation, the AnnualEPS schema migration and the   *)
(* command-line entry points that print a JSON result.                      *)
(***************************************************************************)
EXTENDS Integers, Sequences, FiniteSets, TLC

(* ---------------------------------------------------------------------- *)
(* Bounds and input domains                                                *)
(* ---------------------------------------------------------------------- *)
MaxStocks == 3

Symbols == {"AAA", "BBB"}
Years == {2023, 2024}
EpsYears == {2024}
Prices == {10, 11}
DividendAmounts == {0, 5}
EpsAmounts == {2}
None == "None"                 \* Python's None where a string is expected
NoneNum == 0 - 1               \* Python's None / SQL NULL where a number is expected
NoData == [none |-> TRUE]      \* fetch_yahoo_data returned None
NoFetch == [idle |-> TRUE]     \* no call in progress

VARIABLES
    DividendModels,    \* table DividendModels: set of rows [Id, Symbol, CurrentPrice]
    YearlyDividends,   \* table YearlyDividends: rows in insertion order
    YearlyColumns,     \* column names of YearlyDividends, in PRAGMA table_info order
    lastOp,            \* the last updater call that returned: symbol, row id found, value
    fetched            \* symbol and data of the call in progress, NoFetch between calls

dbVars == <<DividendModels, YearlyDividends, YearlyColumns, lastOp, fetched>>

VARIABLES
    script,            \* which loop this run executes
    stocks,            \* the list the loop iterates over
    limit,             \* bulk_import: the limit argument, NoneNum when absent
    skip_existing,     \* bulk_import: the skip_existing argument
    existing_symbols,  \* bulk_import: the symbols read before the loop
    idx,               \* number of list entries the loop has finished
    pc,                \* "start", "loop", "done", "returned" (early return), "crashed"
    stats,             \* counters and the failed list
    events,            \* log of calls of the fetch / analyze path and of sleeps
    report,            \* the failed list as reported at the end of the run
    present_at_start   \* symbols stored in DividendModels when the run started

importVars == <<script, stocks, limit, skip_existing, existing_symbols, idx, pc, stats,
                events, report, present_at_start>>

VARIABLES
    stoploss,          \* the arguments of one calculate_stop_loss call and its result
    backtest,          \* the inputs of one buy-and-hold backtest and what it returned
    migration,         \* the schema before the first migration run and the runs so far
    cli                \* one run of a command-line entry point

toolVars == <<stoploss, backtest, migration, cli>>

VARIABLES
    force,             \* one run of force_add_column.py: its attempts and what it returned
    ApiUsageLogs,      \* table ApiUsageLogs: rows in insertion order
    IndexApiUsageLogs, \* table IndexApiUsageLogs: rows in insertion order
    safety,            \* the arguments of one calculate_safety_score call and its result
    indicators,        \* a close-price series and the indicator columns computed from it
    strategy,          \* one strategy run of backtest_single_commodity.py, bar by bar
    analyzer,          \* one StrategyAnalyzer backtest, bar by bar
    seasonal,          \* the seasonal backtest of analyze_trading_strategy, bar by bar
    fetcher            \* one IndexDataFetcher run: IndexData, IndexHistory and the counters

laterVars == <<force, ApiUsageLogs, IndexApiUsageLogs, safety, indicators, strategy,
               analyzer, seasonal, fetcher>>

allVars == <<dbVars, importVars, toolVars, laterVars>>

Idle == [idle |-> TRUE]
StopLossIdle == stoploss = Idle
BacktestIdle == backtest = Idle
MigrationIdle == migration = Idle
CliIdle == cli = Idle
ToolsIdle == StopLossIdle /\ BacktestIdle /\ MigrationIdle /\ CliIdle
ForceIdle == force = Idle
LogsIdle == ApiUsageLogs = <<>> /\ IndexApiUsageLogs = <<>>
SafetyIdle == safety = Idle
IndicatorsIdle == indicators = Idle
StrategyIdle == strategy = Idle
AnalyzerIdle == analyzer = Idle
SeasonalIdle == seasonal = Idle
FetcherIdle == fetcher = Idle
LaterIdle ==
    /\ ForceIdle /\ LogsIdle /\ SafetyIdle /\ IndicatorsIdle
    /\ StrategyIdle /\ AnalyzerIdle /\ SeasonalIdle /\ FetcherIdle

(* ---------------------------------------------------------------------- *)
(* StockDataUpdater (update_stocks_from_yahoo.py)                          *)
(* ---------------------------------------------------------------------- *)

\* A python dict with keys in K and values in V.
Dicts(K, V) == UNION {[S -> V] : S \in SUBSET K}

\* dict.get(key, default)
DictGet(d, k, default) == IF k \in DOMAIN d THEN d[k] ELSE default

\* What fetch_yahoo_data returns when it does not return None: the fields
\* the database writes read.
FetchedData == [price : Prices,
                yearly_dividends : Dicts(Years, DividendAmounts),
                annual_eps : Dicts(EpsYears, EpsAmounts)]

\* Outcomes of the database for one call: no error, the first SELECT raises,
\* the INSERT/UPDATE statement raises, or commit() raises.
DbFaults == {"none", "select", "execute", "commit"}

Range(s) == {s[i] : i \in DOMAIN s}

\* The columns of YearlyDividends before the AnnualEPS migration
BaseColumns == <<"Id", "DividendModelId", "Symbol", "Year", "TotalDividend", "PaymentCount">>

Min(S) == CHOOSE x \in S : \A y \in S : x <= y
Max(S) == CHOOSE x \in S : \A y \in S : x >= y

RECURSIVE Sorted(_)
\* sorted(all_years)
Sorted(S) == IF S = {} THEN <<>> ELSE <<Min(S)>> \o Sorted(S \ {Min(S)})

\* ORDER BY Symbol over the symbols of the model
SymbolOrder == <<"AAA", "BBB">>
Sorted_str(S) == SelectSeq(SymbolOrder, LAMBDA x : x \in S)

\* cursor.lastrowid of a row inserted into DividendModels
NextId(dm) == IF dm = {} THEN 1 ELSE Max({r.Id : r \in dm}) + 1

\* The row one year contributes, as the INSERT of save_yearly_data builds it.
YearlyRow(id, symbol, year, data) ==
    LET dividend_amount == DictGet(data.yearly_dividends, year, 0)
        eps_amount == DictGet(data.annual_eps, year, NoneNum)
    IN [DividendModelId |-> id, Symbol |-> symbol, Year |-> year,
        TotalDividend |-> dividend_amount,
        PaymentCount |-> IF dividend_amount > 0 THEN 1 ELSE 0,
        AnnualEPS |-> IF eps_amount # NoneNum /\ eps_amount # 0
                      THEN eps_amount ELSE NoneNum]

\* "Only insert if there's dividend data or EPS data"
HasYearlyData(year, data) ==
    \/ DictGet(data.yearly_dividends, year, 0) > 0
    \/ DictGet(data.annual_eps, year, NoneNum) \notin {NoneNum, 0}

RECURSIVE InsertYears(_, _, _, _, _, _)
\* The insert loop of save_yearly_data over the sorted years.  An INSERT
\* naming the AnnualEPS column raises when the table has no such column; the
\* except clause of save_yearly_data ends the loop there and keeps what was
\* written before.
InsertYears(yd, cols, id, symbol, data, years) ==
    IF years = <<>> THEN yd
    ELSE IF ~HasYearlyData(Head(years), data)
         THEN InsertYears(yd, cols, id, symbol, data, Tail(years))
    ELSE IF "AnnualEPS" \notin Range(cols) THEN yd
    ELSE InsertYears(Append(yd, YearlyRow(id, symbol, Head(years), data)),
                     cols, id, symbol, data, Tail(years))

\* Variant: the refresh keeps the rows already stored for the stock.
DeleteYearly_keep(yd, id) == yd

\* DELETE FROM YearlyDividends WHERE DividendModelId = ?
DeleteYearly(yd, id) == SelectSeq(yd, LAMBDA r : r.DividendModelId # id)

save_yearly_data(yd, cols, id, symbol, data) ==
    InsertYears(DeleteYearly(yd, id), cols, id, symbol, data,
                Sorted(DOMAIN data.yearly_dividends \cup DOMAIN data.annual_eps))

\* update_stock: returns <<DividendModels', YearlyDividends', returned value>>
update_stock(dm, yd, cols, stock_id, data, fault) ==
    LET found == {r \in dm : r.Id = stock_id}
        symbol == IF found = {} THEN None ELSE (CHOOSE r \in found : TRUE).Symbol
        dm2 == {IF r.Id = stock_id THEN [r EXCEPT !.CurrentPrice = data.price] ELSE r
                    : r \in dm}
        yd2 == IF symbol # None
               THEN save_yearly_data(yd, cols, stock_id, symbol, data)
               ELSE yd
    IN IF fault = "execute" THEN <<dm, yd, FALSE>>
       ELSE IF fault = "commit" THEN <<dm2, yd2, FALSE>>
       ELSE <<dm2, yd2, TRUE>>

\* insert_stock: returns <<DividendModels', YearlyDividends', returned value>>
insert_stock(dm, yd, cols, symbol, data, fault) ==
    LET dividend_model_id == NextId(dm)
        dm2 == dm \cup {[Id |-> dividend_model_id, Symbol |-> symbol,
                         CurrentPrice |-> data.price]}
        yd2 == save_yearly_data(yd, cols, dividend_model_id, symbol, data)
    IN IF fault = "execute" THEN <<dm, yd, FALSE>>
       ELSE IF fault = "commit" THEN <<dm2, yd2, FALSE>>
       ELSE <<dm2, yd2, TRUE>>

\* Variant: the existence check never finds the row.
ExistingId_never(dm, symbol) == NoneNum

\* SELECT Id FROM DividendModels WHERE Symbol = ? ; fetchone()
ExistingId(dm, symbol) ==
    LET ids == {r.Id : r \in {q \in dm : q.Symbol = symbol}}
    IN IF ids = {} THEN NoneNum ELSE Min(ids)

\* add_or_update_single_stock: returns <<DividendModels', YearlyDividends',
\* returned value>>; the value is "True", "False", "None" (the function runs
\* off its end when update_stock / insert_stock fails) or "raise" (the SELECT
\* is outside every try block).  data is NoData when fetch_yahoo_data fails.
add_or_update_single_stock(dm, yd, cols, symbol, data, fault) ==
    LET existing == ExistingId(dm, symbol)
        r == IF existing # NoneNum
             THEN update_stock(dm, yd, cols, existing, data, fault)
             ELSE insert_stock(dm, yd, cols, symbol, data, fault)
    IN IF fault = "select" THEN <<dm, yd, "raise">>
       ELSE IF data = NoData THEN <<dm, yd, "False">>
       ELSE <<r[1], r[2], IF r[3] THEN "True" ELSE "None">>

\* The row SELECT ... WHERE Symbol = ? finds
RowOfSymbol(dm, symbol) == CHOOSE r \in dm : r.Symbol = symbol

\* Python truthiness of the value add_or_update_single_stock returns
Truthy(v) == v = "True"

\* add_or_update_single_stock up to the return of fetch_yahoo_data: the
\* symbol is looked up and the data (or None) comes back from the provider.
FetchYahooData(symbol, data) ==
    /\ fetched = NoFetch
    /\ fetched' = [symbol |-> symbol, data |-> data]
    /\ UNCHANGED <<DividendModels, YearlyDividends, YearlyColumns, lastOp>>

\* The rest of add_or_update_single_stock: update_stock or insert_stock
\* with the fetched data, and the return.
StoreFetched(fault) ==
    /\ fetched # NoFetch
    /\ LET r == add_or_update_single_stock(DividendModels, YearlyDividends,
                     YearlyColumns, fetched.symbol, fetched.data, fault)
       IN /\ DividendModels' = r[1]
          /\ YearlyDividends' = r[2]
          /\ lastOp' = [symbol |-> fetched.symbol,
                        existing |-> ExistingId(DividendModels, fetched.symbol),
                        ret |-> r[3]]
    /\ fetched' = NoFetch
    /\ UNCHANGED YearlyColumns

\* No call made on the updater yet
NoCall ==
    /\ lastOp = [symbol |-> None, existing |-> NoneNum, ret |-> None]
    /\ fetched = NoFetch

\* No import loop runs
ImportIdle ==
    /\ script = None
    /\ stocks = <<>>
    /\ limit = NoneNum
    /\ skip_existing = FALSE
    /\ existing_symbols = {}
    /\ idx = 0
    /\ pc = "start"
    /\ stats = [skipped_existing |-> 0, succeeded |-> 0, failed |-> 0,
                failed_symbols |-> <<>>]
    /\ events = <<>>
    /\ report = <<>>
    /\ present_at_start = {}

InitDB ==
    /\ DividendModels = {}
    /\ YearlyDividends = <<>>
    /\ YearlyColumns \in {BaseColumns, Append(BaseColumns, "AnnualEPS")}
    /\ NoCall
    /\ ImportIdle
    /\ StopLossIdle /\ BacktestIdle /\ MigrationIdle /\ CliIdle
    /\ LaterIdle

NextDB ==
    /\ \/ \E symbol \in Symbols, data \in FetchedData \cup {NoData} :
              FetchYahooData(symbol, data)
       \/ \E fault \in DbFaults : StoreFetched(fault)
    /\ UNCHANGED <<importVars, toolVars, laterVars>>

SpecDB == InitDB /\ [][NextDB]_allVars

(* ---------------------------------------------------------------------- *)
(* Bulk import and bulk update loops                                       *)
(* bulk_import_stocks.py, bulk_import_tsx_stocks.py,                       *)
(* bulk_import_us_stocks.py, StockDataUpdater.update_all_stocks            *)
(* ---------------------------------------------------------------------- *)

\* time.sleep arguments, in milliseconds
BULK_IMPORT_SLEEP == 500
TSX_DELAY_BETWEEN_REQUESTS == 500
US_DELAY_BETWEEN_REQUESTS == 2000
UPDATE_ALL_SLEEP == 500

Scripts == {"bulk_import", "bulk_import_tsx_stocks", "bulk_import_us_stocks",
            "update_all_stocks"}

\* Outcomes of requests.get in import_stock
HttpOutcomes == {"200", "500", "timeout", "exception"}

\* Data the provider returns during an import run
ImportData == {[price |-> 11, yearly_dividends |-> (2023 :> 5), annual_eps |-> (2024 :> 2)]}

\* Data of the rows stored before the run starts
SeedData == [price |-> 10, yearly_dividends |-> (2023 :> 5), annual_eps |-> <<>>]

\* Entries of the run's log: a call of the fetch / analyze path for a symbol
\* with its result, a time.sleep, or the warning of bulk_import
CallEvent(symbol, ok) == [type |-> "call", symbol |-> symbol, ok |-> ok, delay |-> 0]
SleepEvent(ms) == [type |-> "sleep", symbol |-> None, ok |-> TRUE, delay |-> ms]
WarnEvent == [type |-> "warn", symbol |-> None, ok |-> TRUE, delay |-> 0]

NoReport == <<"no report">>

RECURSIVE StoredDb(_)
\* The tables after the listed symbols were added one by one: <<DividendModels,
\* YearlyDividends>>
StoredDb(symbols) ==
    IF symbols = <<>> THEN <<{}, <<>>, TRUE>>
    ELSE LET before == StoredDb(SubSeq(symbols, 1, Len(symbols) - 1))
         IN insert_stock(before[1], before[2], Append(BaseColumns, "AnnualEPS"),
                         symbols[Len(symbols)], SeedData, "none")

SymbolsOf(dm) == {r.Symbol : r \in dm}

\* stocks[:limit] when limit is given
ApplyLimit(list, lim) ==
    IF lim # NoneNum /\ lim # 0 /\ lim < Len(list) THEN SubSeq(list, 1, lim) ELSE list

\* process_stock of the StockDataUpdater that bulk_import_stocks.py imports:
\* fetch the symbol, upsert it, report success as a boolean; failures are
\* reported, not raised.
process_stock(dm, yd, cols, symbol, data, fault) ==
    LET r == add_or_update_single_stock(dm, yd, cols, symbol, data, fault)
    IN <<r[1], r[2], Truthy(r[3])>>

\* Variant: never skip.
SkipsSymbol_never(skip, symbol, existing) == FALSE

\* "if skip_existing and symbol in existing_symbols"
SkipsSymbol(skip, symbol, existing) == skip /\ symbol \in existing

\* Variant: the pause is left out before the last stock as well.
SleepUnlessLast_early(ev, index, total, ms) ==
    IF index < total - 1 THEN Append(ev, SleepEvent(ms)) ELSE ev

\* "if idx < total: time.sleep(delay)"
SleepUnlessLast(ev, index, total, ms) ==
    IF index < total THEN Append(ev, SleepEvent(ms)) ELSE ev

\* bulk_import up to the loop: load the list, apply the limit, connect,
\* read the existing symbols.
BulkImportStart(load_ok, connect_ok, select_ok) ==
    /\ script = "bulk_import" /\ pc = "start"
    /\ IF ~load_ok \/ ~connect_ok
       THEN /\ pc' = "returned"
            /\ stocks' = IF load_ok THEN ApplyLimit(stocks, limit) ELSE stocks
            /\ UNCHANGED <<existing_symbols, events>>
       ELSE /\ pc' = "loop"
            /\ stocks' = ApplyLimit(stocks, limit)
            /\ existing_symbols' = IF skip_existing /\ select_ok
                                   THEN SymbolsOf(DividendModels) ELSE {}
            /\ events' = IF skip_existing /\ ~select_ok
                         THEN Append(events, WarnEvent) ELSE events
    /\ UNCHANGED <<script, limit, skip_existing, idx, stats, report, present_at_start,
                   DividendModels, YearlyDividends>>

\* One iteration of the loop of bulk_import.
BulkImportIteration(data, fault) ==
    /\ script = "bulk_import" /\ pc = "loop" /\ idx < Len(stocks)
    /\ LET index == idx + 1
           symbol == stocks[index]
           r == process_stock(DividendModels, YearlyDividends, YearlyColumns,
                              symbol, data, fault)
       IN IF SkipsSymbol(skip_existing, symbol, existing_symbols)
          THEN /\ stats' = [stats EXCEPT !.skipped_existing = @ + 1]
               /\ UNCHANGED <<events, DividendModels, YearlyDividends>>
          ELSE /\ DividendModels' = r[1]
               /\ YearlyDividends' = r[2]
               /\ stats' = IF r[3]
                           THEN [stats EXCEPT !.succeeded = @ + 1]
                           ELSE [stats EXCEPT !.failed = @ + 1,
                                              !.failed_symbols = Append(@, symbol)]
               /\ events' = SleepUnlessLast(Append(events, CallEvent(symbol, r[3])),
                                            index, Len(stocks), BULK_IMPORT_SLEEP)
    /\ idx' = idx + 1
    /\ UNCHANGED <<script, stocks, limit, skip_existing, existing_symbols, pc, report,
                   present_at_start>>

\* After the loop: close, print the summary, write failed_imports_*.txt.
\* With an empty list "elapsed/stats['total']" divides by zero.
BulkImportFinish ==
    /\ script = "bulk_import" /\ pc = "loop" /\ idx = Len(stocks)
    /\ pc' = IF Len(stocks) = 0 THEN "crashed" ELSE "done"
    /\ report' = IF Len(stocks) = 0 THEN report ELSE stats.failed_symbols
    /\ UNCHANGED <<script, stocks, limit, skip_existing, existing_symbols, idx, stats,
                   events, present_at_start, DividendModels, YearlyDividends>>

\* import_stock of both API importers: TRUE exactly for an HTTP 200.
import_stock(outcome) == outcome = "200"

\* bulk_import_tsx_stocks up to the loop: fetch_tsx_listings returns the list,
\* or [] on any error, and an empty list ends the run.
TsxStart(listing_ok) ==
    /\ script = "bulk_import_tsx_stocks" /\ pc = "start"
    /\ stocks' = IF listing_ok THEN stocks ELSE <<>>
    /\ pc' = IF stocks' = <<>> THEN "returned" ELSE "loop"
    /\ UNCHANGED <<script, limit, skip_existing, existing_symbols, idx, stats, events,
                   report, present_at_start, DividendModels, YearlyDividends>>

\* Record the outcome of one import_stock call in the successful / failed lists.
RecordImport(st, symbol, ok) ==
    IF ok THEN [st EXCEPT !.succeeded = @ + 1]
    ELSE [st EXCEPT !.failed = @ + 1, !.failed_symbols = Append(@, symbol)]

TsxIteration(outcome) ==
    /\ script = "bulk_import_tsx_stocks" /\ pc = "loop" /\ idx < Len(stocks)
    /\ LET index == idx + 1
           symbol == stocks[index]
           success == import_stock(outcome)
       IN /\ stats' = RecordImport(stats, symbol, success)
          /\ events' = SleepUnlessLast(Append(events, CallEvent(symbol, success)),
                                       index, Len(stocks), TSX_DELAY_BETWEEN_REQUESTS)
    /\ idx' = idx + 1
    /\ UNCHANGED <<script, stocks, limit, skip_existing, existing_symbols, pc, report,
                   present_at_start, DividendModels, YearlyDividends>>

TsxFinish ==
    /\ script = "bulk_import_tsx_stocks" /\ pc = "loop" /\ idx = Len(stocks)
    /\ pc' = "done"
    /\ report' = stats.failed_symbols
    /\ UNCHANGED <<script, stocks, limit, skip_existing, existing_symbols, idx, stats,
                   events, present_at_start, DividendModels, YearlyDividends>>

\* bulk_import_us_stocks up to the loop: the two listings are concatenated;
\* a listing that fails contributes [].
UsStart(listing_ok) ==
    /\ script = "bulk_import_us_stocks" /\ pc = "start"
    /\ stocks' = IF listing_ok THEN stocks ELSE <<>>
    /\ pc' = "loop"
    /\ UNCHANGED <<script, limit, skip_existing, existing_symbols, idx, stats, events,
                   report, present_at_start, DividendModels, YearlyDividends>>

UsIteration(outcome) ==
    /\ script = "bulk_import_us_stocks" /\ pc = "loop" /\ idx < Len(stocks)
    /\ LET index == idx + 1
           symbol == stocks[index]
           success == import_stock(outcome)
       IN /\ stats' = RecordImport(stats, symbol, success)
          /\ events' = SleepUnlessLast(Append(events, CallEvent(symbol, success)),
                                       index, Len(stocks), US_DELAY_BETWEEN_REQUESTS)
    /\ idx' = idx + 1
    /\ UNCHANGED <<script, stocks, limit, skip_existing, existing_symbols, pc, report,
                   present_at_start, DividendModels, YearlyDividends>>

UsFinish ==
    /\ script = "bulk_import_us_stocks" /\ pc = "loop" /\ idx = Len(stocks)
    /\ pc' = "done"
    /\ report' = stats.failed_symbols
    /\ UNCHANGED <<script, stocks, limit, skip_existing, existing_symbols, idx, stats,
                   events, present_at_start, DividendModels, YearlyDividends>>

\* get_all_stocks: SELECT Id, Symbol FROM DividendModels ORDER BY Symbol
get_all_stocks(dm) ==
    LET syms == Sorted_str(SymbolsOf(dm))
    IN [i \in 1..Len(syms) |-> RowOfSymbol(dm, syms[i])]

\* update_all_stocks up to the loop; get_all_stocks returns [] on an error
\* and an empty list ends the run without a summary.
UpdateAllStart(select_ok) ==
    /\ script = "update_all_stocks" /\ pc = "start"
    /\ stocks' = IF select_ok THEN get_all_stocks(DividendModels) ELSE <<>>
    /\ pc' = IF stocks' = <<>> THEN "returned" ELSE "loop"
    /\ UNCHANGED <<script, limit, skip_existing, existing_symbols, idx, stats, events,
                   report, present_at_start, DividendModels, YearlyDividends>>

\* Variant: only a failed fetch is recorded as a failure.
CountUpdate_fetch_only(st, symbol, fetched_ok, updated) ==
    IF fetched_ok /\ updated THEN [st EXCEPT !.succeeded = @ + 1]
    ELSE IF fetched_ok THEN st
    ELSE [st EXCEPT !.failed = @ + 1, !.failed_symbols = Append(@, symbol)]

\* The counters of update_all_stocks after one stock
CountUpdate(st, symbol, fetched_ok, updated) ==
    IF fetched_ok
    THEN IF updated THEN [st EXCEPT !.succeeded = @ + 1]
         ELSE [st EXCEPT !.failed = @ + 1, !.failed_symbols = Append(@, symbol)]
    ELSE [st EXCEPT !.failed = @ + 1, !.failed_symbols = Append(@, symbol)]

\* One iteration of the loop of update_all_stocks.
UpdateAllIteration(data, fault) ==
    /\ script = "update_all_stocks" /\ pc = "loop" /\ idx < Len(stocks)
    /\ LET stock_id == stocks[idx + 1].Id
           symbol == stocks[idx + 1].Symbol
           r == IF data # NoData
                THEN update_stock(DividendModels, YearlyDividends, YearlyColumns,
                                  stock_id, data, fault)
                ELSE <<DividendModels, YearlyDividends, FALSE>>
       IN /\ DividendModels' = r[1]
          /\ YearlyDividends' = r[2]
          /\ stats' = CountUpdate(stats, symbol, data # NoData, r[3])
          /\ events' = Append(Append(events, CallEvent(symbol, r[3])),
                              SleepEvent(UPDATE_ALL_SLEEP))
    /\ idx' = idx + 1
    /\ UNCHANGED <<script, stocks, limit, skip_existing, existing_symbols, pc, report,
                   present_at_start>>

\* print_summary
UpdateAllFinish ==
    /\ script = "update_all_stocks" /\ pc = "loop" /\ idx = Len(stocks)
    /\ pc' = "done"
    /\ report' = stats.failed_symbols
    /\ UNCHANGED <<script, stocks, limit, skip_existing, existing_symbols, idx, stats,
                   events, present_at_start, DividendModels, YearlyDividends>>

RECURSIVE SeqsUpTo(_, _)
\* The lists over S of at most n entries
SeqsUpTo(S, n) ==
    IF n = 0 THEN {<<>>}
    ELSE LET shorter == SeqsUpTo(S, n - 1)
         IN shorter \cup {Append(q, x) : q \in shorter, x \in S}

InitImport ==
    /\ script \in Scripts
    /\ \E stored \in {<<>>, <<"BBB">>, <<"AAA", "BBB">>} :
          /\ DividendModels = StoredDb(stored)[1]
          /\ YearlyDividends = StoredDb(stored)[2]
    /\ present_at_start = SymbolsOf(DividendModels)
    /\ YearlyColumns = Append(BaseColumns, "AnnualEPS")
    /\ stocks \in IF script = "update_all_stocks" THEN {<<>>}
                  ELSE SeqsUpTo(Symbols, MaxStocks)
    /\ limit \in IF script = "bulk_import" THEN {NoneNum, 2} ELSE {NoneNum}
    /\ skip_existing \in IF script = "bulk_import" THEN BOOLEAN ELSE {FALSE}
    /\ existing_symbols = {}
    /\ idx = 0
    /\ pc = "start"
    /\ stats = [skipped_existing |-> 0, succeeded |-> 0, failed |-> 0,
                failed_symbols |-> <<>>]
    /\ events = <<>>
    /\ report = NoReport
    /\ NoCall
    /\ StopLossIdle /\ BacktestIdle /\ MigrationIdle /\ CliIdle
    /\ LaterIdle

NextImport ==
    /\ \/ \E load_ok, connect_ok, select_ok \in BOOLEAN :
              BulkImportStart(load_ok, connect_ok, select_ok)
       \/ \E data \in ImportData \cup {NoData}, fault \in {"none", "execute"} :
              BulkImportIteration(data, fault)
       \/ BulkImportFinish
       \/ \E listing_ok \in BOOLEAN : TsxStart(listing_ok)
       \/ \E outcome \in HttpOutcomes : TsxIteration(outcome)
       \/ TsxFinish
       \/ \E listing_ok \in BOOLEAN : UsStart(listing_ok)
       \/ \E outcome \in HttpOutcomes : UsIteration(outcome)
       \/ UsFinish
       \/ \E select_ok \in BOOLEAN : UpdateAllStart(select_ok)
       \/ \E data \in ImportData \cup {NoData}, fault \in {"none", "execute"} :
              UpdateAllIteration(data, fault)
       \/ UpdateAllFinish
    /\ UNCHANGED <<YearlyColumns, lastOp, fetched, toolVars, laterVars>>

SpecImport == InitImport /\ [][NextImport]_allVars

(* ---------------------------------------------------------------------- *)
(* backtest_single_commodity.py: calculate_stop_loss                       *)
(* Prices are whole numbers; a computed price is held in units of 1/Scale, *)
(* which makes value/100 and value*volatility/100/100 exact.               *)
(* ---------------------------------------------------------------------- *)
Scale == 10000

EntryPrices == {50, 100, 200}
StopMethods == {"atr", "percentage", "volatility", "fixed", "trailing"}
StopValues == {0, 5, 10, 150}
AtrValues == {NoneNum, 2}
VolatilityValues == {NoneNum, 20}
Directions == {"long", "short", "flat"}

\* "return None" and a returned price
NoStop == [none |-> TRUE, price |-> 0]
Stop(p) == [none |-> FALSE, price |-> p]

\* Variant: the two directions exchanged.
calculate_stop_loss_swapped(entry_price, method, value, atr, volatility, direction) ==
    IF method = "atr" /\ atr # NoneNum
    THEN LET stop_distance == value * atr
         IN Stop(IF direction = "long" THEN (entry_price + stop_distance) * Scale
                 ELSE (entry_price - stop_distance) * Scale)
    ELSE IF method = "percentage"
    THEN LET percentage == value * (Scale \div 100)
         IN Stop(IF direction = "long" THEN entry_price * (Scale + percentage)
                 ELSE entry_price * (Scale - percentage))
    ELSE IF method = "volatility" /\ volatility # NoneNum
    THEN LET vol_distance == entry_price * (value * volatility)
         IN Stop(IF direction = "long" THEN entry_price * Scale + vol_distance
                 ELSE entry_price * Scale - vol_distance)
    ELSE IF method = "fixed"
    THEN Stop(IF direction = "long" THEN (entry_price + value) * Scale
              ELSE (entry_price - value) * Scale)
    ELSE NoStop

calculate_stop_loss(entry_price, method, value, atr, volatility, direction) ==
    IF method = "atr" /\ atr # NoneNum
    THEN LET stop_distance == value * atr
         IN Stop(IF direction = "long" THEN (entry_price - stop_distance) * Scale
                 ELSE (entry_price + stop_distance) * Scale)
    ELSE IF method = "percentage"
    THEN LET percentage == value * (Scale \div 100)
         IN Stop(IF direction = "long" THEN entry_price * (Scale - percentage)
                 ELSE entry_price * (Scale + percentage))
    ELSE IF method = "volatility" /\ volatility # NoneNum
    THEN LET vol_distance == entry_price * (value * volatility)
         IN Stop(IF direction = "long" THEN entry_price * Scale - vol_distance
                 ELSE entry_price * Scale + vol_distance)
    ELSE IF method = "fixed"
    THEN Stop(IF direction = "long" THEN (entry_price - value) * Scale
              ELSE (entry_price + value) * Scale)
    ELSE NoStop

\* One call of calculate_stop_loss with the arguments chosen at the start.
CallStopLoss ==
    /\ stoploss # Idle /\ ~stoploss.returned
    /\ stoploss' = [stoploss EXCEPT
                      !.returned = TRUE,
                      !.result = calculate_stop_loss(stoploss.entry_price, stoploss.method,
                                                     stoploss.value, stoploss.atr,
                                                     stoploss.volatility, stoploss.direction)]
    /\ UNCHANGED <<laterVars, dbVars, importVars, backtest, migration, cli>>

\* The database as it is when no updater runs
DbIdle ==
    /\ DividendModels = {}
    /\ YearlyDividends = <<>>
    /\ NoCall

InitStopLoss ==
    /\ stoploss \in [entry_price : EntryPrices, method : StopMethods, value : StopValues,
                     atr : AtrValues, volatility : VolatilityValues,
                     direction : Directions, returned : {FALSE}, result : {NoStop}]
    /\ DbIdle /\ YearlyColumns = Append(BaseColumns, "AnnualEPS")
    /\ ImportIdle /\ BacktestIdle /\ MigrationIdle /\ CliIdle
    /\ LaterIdle

NextStopLoss == CallStopLoss

SpecStopLoss == InitStopLoss /\ [][NextStopLoss]_allVars

(* ---------------------------------------------------------------------- *)
(* The buy-and-hold backtests: strategy_buy_hold of                        *)
(* backtest_single_commodity.py and backtest_buy_hold of                   *)
(* multi_strategy_analyzer.py.  Capital, margin and close prices are whole *)
(* dollars; computed money is in units of 1/Scale dollar, reported money   *)
(* (round(x, 2)) in cents.                                                 *)
(* ---------------------------------------------------------------------- *)
MaxDays == 3

ClosePrices == {50, 51, 60}
Capitals == {3000, 5000, 12000}
\* get_commodity_specs: the default entry, 'CL=F' and 'GC=F'
CommoditySpecs == {[contractSize |-> 1, margin |-> 5000],
                   [contractSize |-> 1000, margin |-> 5000],
                   [contractSize |-> 100, margin |-> 8000]}
BacktestStopMethods == {"percentage", "fixed"}
BacktestStopValues == {10}
Engines == {"strategy_buy_hold", "backtest_buy_hold"}

\* The default cost profile of get_cme_costs, per contract, in 1/Scale dollar;
\* the overnight rate 0.000137 in millionths
COMMISSION == 25000
EXCHANGE_FEE == 15000
CLEARING_FEE == 5000
OVERNIGHT_RATE == 137

RECURSIVE SeqsOfLen(_, _)
SeqsOfLen(S, n) ==
    IF n = 0 THEN {<<>>}
    ELSE {Append(q, x) : q \in SeqsOfLen(S, n - 1), x \in S}

\* The close-price series: at least one row (an empty frame is rejected
\* before a strategy runs)
Series == UNION {SeqsOfLen(ClosePrices, n) : n \in 1..MaxDays}

\* int(capital / specs['margin'])
ContractsFor(capital, specs) == capital \div specs.margin

\* (commission + exchangeFee + clearingFee) * contracts
TradeCosts(contracts) == (COMMISSION + EXCHANGE_FEE + CLEARING_FEE) * contracts

\* Variant: no overnight financing is charged.
overnight_costs_free(specs, contracts, days_held) == 0

\* specs['margin'] * contracts * costs['overnightRate'] * days_held
overnight_costs(specs, contracts, days_held) ==
    (specs.margin * contracts * OVERNIGHT_RATE * days_held) \div (1000000 \div Scale)

\* "if stop_price and current_price <= stop_price"
StopHit(stop_price, current_price) ==
    /\ ~stop_price.none /\ stop_price.price # 0
    /\ current_price * Scale <= stop_price.price

\* The first row after the entry at which the stop is hit, 0 when none is
FirstStopRow(df, stop_price) ==
    LET hits == {i \in 2..Len(df) : StopHit(stop_price, df[i])}
    IN IF hits = {} THEN 0 ELSE Min(hits)

\* round(x, 2) of an amount in 1/Scale dollar, in cents (ties to even)
Round2(x) ==
    LET unit == Scale \div 100
        q == x \div unit
        r == x % unit
    IN IF 2 * r < unit THEN q
       ELSE IF 2 * r > unit THEN q + 1
       ELSE IF q % 2 = 0 THEN q ELSE q + 1

\* round(a / b, 2) of a quotient of whole dollars, in cents (ties to even)
RoundQuotient2(a, b) ==
    LET q == (100 * a) \div b
        r == (100 * a) % b
    IN IF 2 * r < b THEN q
       ELSE IF 2 * r > b THEN q + 1
       ELSE IF q % 2 = 0 THEN q ELSE q + 1

BuyTrade(price, contracts, stop_price, entry_costs) ==
    [type |-> "BUY", price |-> price * Scale, contracts |-> contracts,
     reason |-> "Initial entry", stopLossPrice |-> stop_price,
     pnl |-> 0, commission |-> entry_costs, overnightFinancing |-> 0]

SellTrade(price, contracts, reason, pnl, exit_costs, overnight) ==
    [type |-> "SELL", price |-> price, contracts |-> contracts,
     reason |-> reason, stopLossPrice |-> NoStop,
     pnl |-> pnl, commission |-> exit_costs, overnightFinancing |-> overnight]

\* strategy_buy_hold: trades, total_costs_sum, final_value
strategy_buy_hold(df, capital, specs, stop_loss_method, stop_loss_value) ==
    LET entry_price == df[1]
        contracts == ContractsFor(capital, specs)
        stop_price == calculate_stop_loss(entry_price, stop_loss_method, stop_loss_value,
                                          NoneNum, NoneNum, "long")
        entry_costs == TradeCosts(contracts)
        remaining_capital == capital * Scale - specs.margin * contracts * Scale - entry_costs
        hit == FirstStopRow(df, stop_price)
        stop_hit == hit # 0
        days_held == IF stop_hit THEN hit - 1 ELSE Len(df) - 1
        exit_price == IF stop_hit THEN stop_price.price ELSE df[Len(df)] * Scale
        exit_costs == TradeCosts(contracts)
        overnight == overnight_costs(specs, contracts, days_held)
        pnl == (exit_price - entry_price * Scale) * specs.contractSize * contracts
        total_costs == entry_costs + exit_costs + overnight
        final_value == remaining_capital + specs.margin * contracts * Scale + pnl - total_costs
    IN IF contracts < 1
       THEN [trades |-> <<>>, total_costs |-> 0, final_value |-> capital * Scale]
       ELSE [trades |-> <<BuyTrade(entry_price, contracts, stop_price, entry_costs),
                          SellTrade(exit_price, contracts,
                                    IF stop_hit THEN "Stop-loss triggered"
                                    ELSE "End of period",
                                    pnl, exit_costs, overnight)>>,
             total_costs |-> entry_costs + exit_costs + overnight,
             final_value |-> final_value]

\* backtest_buy_hold of StrategyAnalyzer: the reported finalValue in cents,
\* the 'trades' count and the 'signals' list
backtest_buy_hold(df, capital) ==
    [finalValue |-> RoundQuotient2(capital * df[Len(df)], df[1]),
     trades |-> 1,
     signals |-> <<>>]

\* backtest_single_commodity with strategy 'buyhold' builds its response.
RunStrategyBuyHold ==
    /\ backtest # Idle /\ ~backtest.done /\ backtest.engine = "strategy_buy_hold"
    /\ LET r == strategy_buy_hold(backtest.df, backtest.capital, backtest.specs,
                                  backtest.stop_loss_method, backtest.stop_loss_value)
       IN backtest' = [backtest EXCEPT !.done = TRUE,
                                       !.trades = r.trades,
                                       !.totalCosts = Round2(r.total_costs),
                                       !.final_value = r.final_value,
                                       !.finalValue = Round2(r.final_value),
                                       !.count = Len(SelectSeq(r.trades,
                                                     LAMBDA t : t.type = "SELL"))]
    /\ UNCHANGED <<laterVars, dbVars, importVars, stoploss, migration, cli>>

\* analyze_all_strategies runs the analyzer's buy-and-hold.
RunAnalyzerBuyHold ==
    /\ backtest # Idle /\ ~backtest.done /\ backtest.engine = "backtest_buy_hold"
    /\ LET r == backtest_buy_hold(backtest.df, backtest.capital)
       IN backtest' = [backtest EXCEPT !.done = TRUE,
                                       !.trades = r.signals,
                                       !.finalValue = r.finalValue,
                                       !.count = r.trades]
    /\ UNCHANGED <<laterVars, dbVars, importVars, stoploss, migration, cli>>

InitBuyHold ==
    /\ backtest \in [engine : Engines, df : Series, capital : Capitals,
                     specs : CommoditySpecs,
                     stop_loss_method : BacktestStopMethods,
                     stop_loss_value : BacktestStopValues,
                     done : {FALSE}, trades : {<<>>}, totalCosts : {0},
                     final_value : {0}, finalValue : {0}, count : {0}]
    /\ backtest.engine = "backtest_buy_hold" =>
          (backtest.specs.contractSize = 1 /\ backtest.stop_loss_method = "percentage")
    /\ DbIdle /\ YearlyColumns = Append(BaseColumns, "AnnualEPS")
    /\ ImportIdle /\ StopLossIdle /\ MigrationIdle /\ CliIdle
    /\ LaterIdle

NextBuyHold == RunStrategyBuyHold \/ RunAnalyzerBuyHold

SpecBuyHold == InitBuyHold /\ [][NextBuyHold]_allVars

(* ---------------------------------------------------------------------- *)
(* The AnnualEPS migrations: add_annual_eps_column.py and                  *)
(* migrate_add_annual_eps.py                                               *)
(* ---------------------------------------------------------------------- *)
MaxRuns == 3

MigrationScripts == {"add_annual_eps_column", "migrate_add_annual_eps"}

\* Where sqlite3 raises in a run: nowhere; "database is locked" at the first
\* PRAGMA; "database is locked" or another error at the ALTER TABLE; an
\* error at the PRAGMA that follows the ALTER TABLE
MigrationFaults == {"none", "locked_pragma", "locked_alter", "error_alter", "error_verify"}

\* Variant: the column is never found.
HasAnnualEPS_never(columns) == FALSE

\* "'AnnualEPS' in column_names"
HasAnnualEPS(columns) == \E i \in DOMAIN columns : columns[i] = "AnnualEPS"

\* add_column / the try block of run_migration: the columns afterwards,
\* the value returned, whether ALTER TABLE was executed and changed the
\* table, and whether the database made sqlite3 raise.  ALTER TABLE ... ADD COLUMN of a
\* column that exists raises "duplicate column name".
add_column(columns, fault) ==
    IF fault = "locked_pragma"
    THEN [columns |-> columns, success |-> FALSE, altered |-> FALSE, faulted |-> TRUE]
    ELSE IF HasAnnualEPS(columns)
    THEN [columns |-> columns, success |-> TRUE, altered |-> FALSE, faulted |-> FALSE]
    ELSE IF fault \in {"locked_alter", "error_alter"}
    THEN [columns |-> columns, success |-> FALSE, altered |-> FALSE, faulted |-> TRUE]
    ELSE IF "AnnualEPS" \in Range(columns)
    THEN [columns |-> columns, success |-> FALSE, altered |-> FALSE, faulted |-> FALSE]
    ELSE IF fault = "error_verify"
    THEN [columns |-> Append(columns, "AnnualEPS"), success |-> FALSE,
          altered |-> TRUE, faulted |-> TRUE]
    ELSE [columns |-> Append(columns, "AnnualEPS"), success |-> TRUE,
          altered |-> TRUE, faulted |-> FALSE]

\* run_migration: False when the database file is missing
run_migration(db_exists, columns, fault) ==
    IF ~db_exists
    THEN [columns |-> columns, success |-> FALSE, altered |-> FALSE, faulted |-> FALSE]
    ELSE add_column(columns, fault)

\* "sys.exit(0 if success else 1)"
ExitStatus(success) == IF success THEN 0 ELSE 1

RunRecord(name, db_exists, columns, r) ==
    [script |-> name, db_exists |-> db_exists, had_column |-> HasAnnualEPS(columns),
     altered |-> r.altered, faulted |-> r.faulted, exit |-> ExitStatus(r.success)]

\* One run of add_annual_eps_column.py
AddColumnRun(fault) ==
    /\ migration # Idle /\ Len(migration.runs) < MaxRuns
    /\ LET r == add_column(YearlyColumns, fault)
       IN /\ YearlyColumns' = r.columns
          /\ migration' = [migration EXCEPT !.runs =
                 Append(@, RunRecord("add_annual_eps_column", TRUE, YearlyColumns, r))]
    /\ UNCHANGED <<laterVars, DividendModels, YearlyDividends, lastOp, fetched, importVars,
                   stoploss, backtest, cli>>

\* One run of migrate_add_annual_eps.py
MigrateRun(db_exists, fault) ==
    /\ migration # Idle /\ Len(migration.runs) < MaxRuns
    /\ LET r == run_migration(db_exists, YearlyColumns, fault)
       IN /\ YearlyColumns' = r.columns
          /\ migration' = [migration EXCEPT !.runs =
                 Append(@, RunRecord("migrate_add_annual_eps", db_exists, YearlyColumns, r))]
    /\ UNCHANGED <<laterVars, DividendModels, YearlyDividends, lastOp, fetched, importVars,
                   stoploss, backtest, cli>>

InitMig ==
    /\ YearlyColumns \in {BaseColumns, Append(BaseColumns, "AnnualEPS")}
    /\ migration = [initial |-> YearlyColumns, runs |-> <<>>]
    /\ DbIdle /\ ImportIdle /\ StopLossIdle /\ BacktestIdle /\ CliIdle
    /\ LaterIdle

NextMig ==
    \/ \E fault \in MigrationFaults : AddColumnRun(fault)
    \/ \E db_exists \in BOOLEAN, fault \in MigrationFaults : MigrateRun(db_exists, fault)

SpecMig == InitMig /\ [][NextMig]_allVars

(* ---------------------------------------------------------------------- *)
(* The command-line entry points that print a JSON result                  *)
(* ---------------------------------------------------------------------- *)
CliScripts == {"fetch_etf_history", "fetch_etf_hourly", "fetch_etf_intraday",
               "growth_stock_analyzer", "fetch_sp500_monthly",
               "stock_strategy_calculator", "trading_strategy_analysis",
               "multi_strategy_analyzer", "backtest_single_commodity"}

\* The command line: no arguments, well-formed arguments, or a numeric
\* argument that does not parse
ArgvCases == {"missing", "valid", "bad_number"}

\* What happens in the body: it completes, the history is empty, the fetch
\* raises, or a later computation raises
BodyOutcomes(name) ==
    IF name = "growth_stock_analyzer"
    THEN {"ok", "fetch_exception", "compute_exception"}
    ELSE {"ok", "no_data", "fetch_exception", "compute_exception"}

\* Scripts whose main checks len(sys.argv) and exits 1 on a missing argument
ChecksArgc(name) ==
    name \notin {"fetch_sp500_monthly", "trading_strategy_analysis"}

\* Scripts whose main converts an argument with int() / float() / type=int
ParsesNumber(name) ==
    name \notin {"fetch_etf_intraday", "growth_stock_analyzer"}

\* Scripts that print {"success": false, ...} before the usage exit
PrintsUsageJson(name) ==
    name \in {"growth_stock_analyzer", "backtest_single_commodity"}

\* The value the body returns to main: a dict with success True, a dict
\* with success False, None, or an exception that leaves the body
Body(name, outcome) ==
    IF outcome = "ok" THEN "success"
    ELSE IF name \in {"fetch_sp500_monthly", "backtest_single_commodity",
                      "growth_stock_analyzer"}
    THEN "failure"
    ELSE IF name = "multi_strategy_analyzer"
    THEN IF outcome = "compute_exception" THEN "raise" ELSE "None"
    ELSE IF outcome = "no_data" THEN "None" ELSE "failure"

\* What main does with the returned value: the exit status and the value of
\* "success" in the JSON it printed ("none" when it printed no JSON)
MainExit(name, result) ==
    IF result = "raise" THEN [exit |-> 1, json |-> "none"]
    ELSE IF name \in {"fetch_etf_history", "fetch_etf_hourly", "fetch_etf_intraday"}
    THEN IF result # "None"
         THEN [exit |-> 0, json |-> IF result = "success" THEN "true" ELSE "false"]
         ELSE [exit |-> 1, json |-> "none"]
    ELSE IF name \in {"growth_stock_analyzer", "fetch_sp500_monthly"}
    THEN [exit |-> 0, json |-> IF result = "success" THEN "true" ELSE "false"]
    ELSE IF name = "backtest_single_commodity"
    THEN IF result = "success" THEN [exit |-> 0, json |-> "true"]
         ELSE [exit |-> 1, json |-> "false"]
    ELSE IF result = "success" THEN [exit |-> 0, json |-> "true"]
         ELSE [exit |-> 1, json |-> "none"]

\* main up to the call of the body
ParseArgs ==
    /\ cli # Idle /\ cli.phase = "start"
    /\ IF cli.argv = "missing" /\ ChecksArgc(cli.script)
       THEN cli' = [cli EXCEPT !.phase = "exited", !.exit = 1,
                               !.json = IF PrintsUsageJson(cli.script)
                                        THEN "false" ELSE "none"]
       ELSE IF cli.argv = "bad_number" /\ ParsesNumber(cli.script)
       THEN cli' = [cli EXCEPT !.phase = "exited",
                               !.exit = IF cli.script = "fetch_sp500_monthly"
                                        THEN 2 ELSE 1]
       ELSE cli' = [cli EXCEPT !.phase = "parsed"]
    /\ UNCHANGED <<laterVars, dbVars, importVars, stoploss, backtest, migration>>

\* The body runs and returns
RunBody(outcome) ==
    /\ cli # Idle /\ cli.phase = "parsed"
    /\ outcome \in BodyOutcomes(cli.script)
    /\ cli' = [cli EXCEPT !.phase = "returned", !.outcome = outcome,
                          !.result = Body(cli.script, outcome)]
    /\ UNCHANGED <<laterVars, dbVars, importVars, stoploss, backtest, migration>>

\* main prints and the process exits
Finish ==
    /\ cli # Idle /\ cli.phase = "returned"
    /\ LET m == MainExit(cli.script, cli.result)
       IN cli' = [cli EXCEPT !.phase = "exited", !.exit = m.exit, !.json = m.json]
    /\ UNCHANGED <<laterVars, dbVars, importVars, stoploss, backtest, migration>>

InitCLI ==
    /\ cli \in [script : CliScripts, argv : ArgvCases, phase : {"start"},
                outcome : {None}, result : {None}, exit : {NoneNum}, json : {"none"}]
    /\ DbIdle /\ YearlyColumns = Append(BaseColumns, "AnnualEPS")
    /\ ImportIdle /\ StopLossIdle /\ BacktestIdle /\ MigrationIdle
    /\ LaterIdle

NextCLI ==
    \/ ParseArgs
    \/ \E outcome \in {"ok", "no_data", "fetch_exception", "compute_exception"} :
           RunBody(outcome)
    \/ Finish

SpecCLI == InitCLI /\ [][NextCLI]_allVars

(* ---------------------------------------------------------------------- *)
(* Properties of the updater's tables                                      *)
(* ---------------------------------------------------------------------- *)
RowsOf(yd, id) == SelectSeq(yd, LAMBDA r : r.DividendModelId = id)
RowsNotOf(yd, id) == SelectSeq(yd, LAMBDA r : r.DividendModelId # id)

\* The rows a refresh with this data is expected to leave for the stock.
DerivedRows(id, symbol, data) ==
    LET ys == Sorted({y \in DOMAIN data.yearly_dividends \cup DOMAIN data.annual_eps :
                        HasYearlyData(y, data)})
    IN [i \in 1..Len(ys) |-> YearlyRow(id, symbol, ys[i], data)]

\* A call of add_or_update_single_stock returns in this step.
CallReturns == fetched # NoFetch /\ fetched' = NoFetch

AtMostOneRowPerSymbol(dm) == \A r1, r2 \in dm : r1.Symbol = r2.Symbol => r1 = r2

\* C7: after a refresh reported successful, the YearlyDividends rows of the
\* stock are exactly the rows derived from the newly fetched data, and the
\* rows of every other stock are unchanged.
C7_RefreshReplacesYearlyRows ==
    [][(CallReturns /\ lastOp'.ret = "True") =>
         LET id == ExistingId(DividendModels', fetched.symbol)
         IN /\ RowsOf(YearlyDividends', id) = DerivedRows(id, fetched.symbol, fetched.data)
            /\ RowsNotOf(YearlyDividends', id) = RowsNotOf(YearlyDividends, id)]_dbVars

\* The same statement restricted to a table that has the AnnualEPS column.
RefreshReplacesYearlyRowsWithColumn ==
    [][(CallReturns /\ lastOp'.ret = "True" /\ "AnnualEPS" \in Range(YearlyColumns)) =>
         LET id == ExistingId(DividendModels', fetched.symbol)
         IN /\ RowsOf(YearlyDividends', id) = DerivedRows(id, fetched.symbol, fetched.data)
            /\ RowsNotOf(YearlyDividends', id) = RowsNotOf(YearlyDividends, id)]_dbVars

\* C8 as stated: at most one row per symbol; a call for a present symbol
\* updates the existing row and inserts none, a call for an absent symbol
\* inserts exactly one row.
C8_UpsertExactlyOneRow ==
    [][CallReturns =>
         /\ AtMostOneRowPerSymbol(DividendModels')
         /\ ExistingId(DividendModels, fetched.symbol) # NoneNum =>
               /\ Cardinality(DividendModels') = Cardinality(DividendModels)
               /\ fetched.data # NoData
               /\ RowOfSymbol(DividendModels', fetched.symbol).CurrentPrice
                      = fetched.data.price
         /\ ExistingId(DividendModels, fetched.symbol) = NoneNum =>
               Cardinality(DividendModels') = Cardinality(DividendModels) + 1]_dbVars

\* C8 amended: at most one row per symbol; a call for a present symbol
\* inserts no row, a call for an absent symbol inserts at most one; a call
\* that returns True has inserted exactly one row for an absent symbol and
\* has written the fetched data to the symbol's single row; a call whose
\* fetch failed leaves the table unchanged.
C8_UpsertAtMostOneRow ==
    [][CallReturns =>
         /\ AtMostOneRowPerSymbol(DividendModels')
         /\ ExistingId(DividendModels, fetched.symbol) # NoneNum =>
               Cardinality(DividendModels') = Cardinality(DividendModels)
         /\ ExistingId(DividendModels, fetched.symbol) = NoneNum =>
               Cardinality(DividendModels') - Cardinality(DividendModels) \in {0, 1}
         /\ lastOp'.ret = "True" =>
               /\ ExistingId(DividendModels, fetched.symbol) = NoneNum =>
                     Cardinality(DividendModels') = Cardinality(DividendModels) + 1
               /\ RowOfSymbol(DividendModels', fetched.symbol).CurrentPrice
                      = fetched.data.price
         /\ fetched.data = NoData => DividendModels' = DividendModels]_dbVars

\* Both stocks are stored and the last call updated the row it found.
C8_Witness ==
    /\ lastOp.ret = "True"
    /\ lastOp.existing # NoneNum
    /\ Cardinality(DividendModels) = 2

\* C9: YearlyDividends holds at most one row per (Symbol, Year).
C9_UniqueSymbolYear ==
    \A i, j \in DOMAIN YearlyDividends :
        (/\ YearlyDividends[i].Symbol = YearlyDividends[j].Symbol
         /\ YearlyDividends[i].Year = YearlyDividends[j].Year) => i = j

\* A stock that was already stored has been refreshed and holds rows for
\* both years, next to rows of the other stock.
C9_Witness ==
    /\ lastOp.ret = "True"
    /\ lastOp.existing # NoneNum
    /\ Len(RowsOf(YearlyDividends, lastOp.existing)) = 2
    /\ Len(RowsNotOf(YearlyDividends, lastOp.existing)) >= 1

(* ---------------------------------------------------------------------- *)
(* Properties of the import loops                                          *)
(* ---------------------------------------------------------------------- *)
IsCall(e) == e.type = "call"
IsSleep(e) == e.type = "sleep"
Calls == SelectSeq(events, IsCall)
FailedCalls == SelectSeq(events, LAMBDA e : IsCall(e) /\ ~e.ok)
SymbolsIn(evs) == [i \in 1..Len(evs) |-> evs[i].symbol]
SelectFailed == \E i \in DOMAIN events : events[i].type = "warn"

LoopStep ==
    \/ \E data \in ImportData \cup {NoData}, fault \in {"none", "execute"} :
           BulkImportIteration(data, fault) \/ UpdateAllIteration(data, fault)
    \/ \E outcome \in HttpOutcomes : TsxIteration(outcome) \/ UsIteration(outcome)

FixedDelay ==
    CASE script = "bulk_import" -> BULK_IMPORT_SLEEP
      [] script = "bulk_import_tsx_stocks" -> TSX_DELAY_BETWEEN_REQUESTS
      [] script = "bulk_import_us_stocks" -> US_DELAY_BETWEEN_REQUESTS
      [] script = "update_all_stocks" -> UPDATE_ALL_SLEEP
      [] OTHER -> 0

\* C10: between any two calls of the fetch / analyze path the script has
\* slept, and every sleep is for the script's fixed delay.
C10_SleepBetweenCalls ==
    /\ \A i \in DOMAIN events : IsSleep(events[i]) => events[i].delay = FixedDelay
    /\ \A i, j \in DOMAIN events :
          (i < j /\ IsCall(events[i]) /\ IsCall(events[j])) =>
              \E k \in DOMAIN events : i < k /\ k < j /\ IsSleep(events[k])

\* A finished run that made three calls.
C10_Witness == pc = "done" /\ Len(Calls) >= 3

(* ---------------------------------------------------------------------- *)
(* Properties of calculate_stop_loss                                       *)
(* ---------------------------------------------------------------------- *)
\* C3: with method 'percentage' the stop is entry_price * (1 - value/100) for
\* direction 'long' and entry_price * (1 + value/100) for every other
\* direction; entry 100, value 10, long gives 90.
C3_PercentageStop ==
    (stoploss # Idle /\ stoploss.returned /\ stoploss.method = "percentage") =>
        /\ ~stoploss.result.none
        /\ stoploss.direction = "long" =>
              100 * stoploss.result.price =
                  stoploss.entry_price * Scale * (100 - stoploss.value)
        /\ stoploss.direction # "long" =>
              100 * stoploss.result.price =
                  stoploss.entry_price * Scale * (100 + stoploss.value)
        /\ (stoploss.entry_price = 100 /\ stoploss.value = 10
               /\ stoploss.direction = "long") =>
              stoploss.result.price = 90 * Scale

\* The call of the specification's example has returned 90.
C3_Witness ==
    /\ stoploss # Idle /\ stoploss.returned
    /\ stoploss.method = "percentage" /\ stoploss.direction = "long"
    /\ stoploss.entry_price = 100 /\ stoploss.value = 10
    /\ stoploss.result = Stop(90 * Scale)

(* ---------------------------------------------------------------------- *)
(* Properties of the buy-and-hold backtests                                *)
(* ---------------------------------------------------------------------- *)
StrictlyIncreasing(df) == \A i \in 1..(Len(df) - 1) : df[i] < df[i + 1]
TradeTypes(trades) == [i \in 1..Len(trades) |-> trades[i].type]
Finished(engine) ==
    /\ backtest # Idle /\ backtest.done /\ backtest.engine = engine
    /\ Len(backtest.df) >= 2 /\ StrictlyIncreasing(backtest.df)

\* C2 as stated: over a strictly increasing series strategy_buy_hold ends
\* with finalValue > capital and the trades are one BUY then one SELL.
C2_IncreasingSeriesGains ==
    Finished("strategy_buy_hold") =>
        /\ backtest.finalValue > 100 * backtest.capital
        /\ TradeTypes(backtest.trades) = <<"BUY", "SELL">>

\* What strategy_buy_hold charges over days_held days: the entry costs twice,
\* the exit costs, and the overnight financing
ChargedCosts(specs, contracts, days_held) ==
    3 * (COMMISSION + EXCHANGE_FEE + CLEARING_FEE) * contracts
    + (137 * specs.margin * contracts * days_held) \div 100

\* C2 amended: over a strictly increasing series with a stop below the
\* entry, strategy_buy_hold with capital below one margin trades nothing and
\* returns the capital; otherwise its trades are one BUY then one SELL at the
\* last close, and the final value is the capital plus the price gain minus
\* the charged costs, so that finalValue > capital exactly when the gain
\* exceeds those costs.  The analyzer's backtest_buy_hold reports one trade,
\* no signals, and a finalValue that is never below the capital and is above
\* it when the gain is at least a cent.
C2_IncreasingSeriesGainsNetOfCosts ==
    /\ Finished("strategy_buy_hold") =>
          LET contracts == backtest.capital \div backtest.specs.margin
              days == Len(backtest.df) - 1
              gain == (backtest.df[Len(backtest.df)] - backtest.df[1])
                         * backtest.specs.contractSize * contracts * Scale
              charged == ChargedCosts(backtest.specs, contracts, days)
          IN IF backtest.capital < backtest.specs.margin
             THEN /\ backtest.trades = <<>>
                  /\ backtest.finalValue = 100 * backtest.capital
             ELSE /\ TradeTypes(backtest.trades) = <<"BUY", "SELL">>
                  /\ backtest.trades[2].reason = "End of period"
                  /\ backtest.trades[2].price = backtest.df[Len(backtest.df)] * Scale
                  /\ backtest.final_value = backtest.capital * Scale + gain - charged
                  /\ backtest.finalValue = Round2(backtest.final_value)
                  /\ (backtest.final_value > backtest.capital * Scale) <=> (gain > charged)
    /\ Finished("backtest_buy_hold") =>
          /\ backtest.count = 1 /\ backtest.trades = <<>>
          /\ backtest.finalValue >= 100 * backtest.capital
          /\ (100 * backtest.capital
                 * (backtest.df[Len(backtest.df)] - backtest.df[1]) >= backtest.df[1])
             => backtest.finalValue > 100 * backtest.capital

\* A run over a rising series that bought, sold and ended above the capital.
C2_Witness ==
    /\ Finished("strategy_buy_hold")
    /\ TradeTypes(backtest.trades) = <<"BUY", "SELL">>
    /\ backtest.finalValue > 100 * backtest.capital

(* ---------------------------------------------------------------------- *)
(* Properties of the AnnualEPS migrations                                  *)
(* ---------------------------------------------------------------------- *)
CountAnnualEPS == Cardinality({i \in DOMAIN YearlyColumns : YearlyColumns[i] = "AnnualEPS"})
TwoAddColumnRuns ==
    /\ migration # Idle
    /\ ~HasAnnualEPS(migration.initial)
    /\ Len(migration.runs) >= 2
    /\ migration.runs[1].script = "add_annual_eps_column"
    /\ migration.runs[2].script = "add_annual_eps_column"

\* C4 as stated: after two runs of add_annual_eps_column.py on a table that
\* lacked AnnualEPS the table has the column once, both runs exited 0 and
\* the second run executed no ALTER TABLE.
C4_TwoRunsBothExitZero ==
    TwoAddColumnRuns =>
        /\ CountAnnualEPS = 1
        /\ migration.runs[1].exit = 0 /\ migration.runs[2].exit = 0
        /\ ~migration.runs[2].altered

\* C4 amended: the table never has AnnualEPS more than once; a run that
\* finds the column executes no ALTER TABLE; a run on an existing database
\* in which sqlite3 raises nothing exits 0, a run in which it raises exits
\* 1; once a run has exited 0 the column is there exactly once.  In
\* particular two runs of add_annual_eps_column.py without an sqlite3 error,
\* on a table that lacked the column, leave it there once, both exit 0, and
\* only the first executes ALTER TABLE.
C4_IdempotentUnlessSqliteRaises ==
    migration # Idle =>
        /\ CountAnnualEPS <= 1
        /\ \A i \in DOMAIN migration.runs :
              LET run == migration.runs[i]
              IN /\ run.had_column => ~run.altered
                 /\ (run.db_exists /\ ~run.faulted) => run.exit = 0
                 /\ run.faulted => run.exit = 1
                 /\ run.exit = 0 => CountAnnualEPS = 1
        /\ (TwoAddColumnRuns /\ ~migration.runs[1].faulted /\ ~migration.runs[2].faulted) =>
              /\ CountAnnualEPS = 1
              /\ migration.runs[1].exit = 0 /\ migration.runs[2].exit = 0
              /\ migration.runs[1].altered /\ ~migration.runs[2].altered

\* Two runs of add_annual_eps_column.py without an error: the first added
\* the column, the second found it.
C4_Witness ==
    /\ TwoAddColumnRuns
    /\ ~migration.runs[1].faulted /\ ~migration.runs[2].faulted
    /\ migration.runs[1].altered /\ ~migration.runs[2].altered
    /\ migration.runs[1].exit = 0 /\ migration.runs[2].exit = 0
    /\ CountAnnualEPS = 1

(* ---------------------------------------------------------------------- *)
(* Properties of the command-line entry points                             *)
(* ---------------------------------------------------------------------- *)
\* C6: a run that exits after a success exits 0, and a run whose body
\* raised or whose result has success = false exits with a non-zero status.
C6_ExitStatusFollowsSuccess ==
    (cli # Idle /\ cli.phase = "exited") =>
        /\ cli.result = "success" => cli.exit = 0
        /\ (cli.result \in {"failure", "raise"} \/ cli.json = "false") => cli.exit # 0

(* ---------------------------------------------------------------------- *)
(* force_add_column.py: add_column with its retry loop                     *)
(* ---------------------------------------------------------------------- *)
max_retries == 3
RETRY_SLEEP == 2000

\* Where sqlite3 raises OperationalError in one attempt, and whether its
\* message contains 'locked': at the PRAGMA table_info, at the ALTER TABLE,
\* or at the PRAGMA table_info that follows the ALTER TABLE
ForceFaults == {"none", "locked_pragma", "error_pragma", "locked_alter", "error_alter",
                "locked_verify", "error_verify"}

\* One pass through the try block: the columns afterwards and how the pass
\* ended ("True", "locked" or "error"), whether the column was found, and
\* whether ALTER TABLE added it
ForceAttempt(columns, fault) ==
    IF fault \in {"locked_pragma", "error_pragma"}
    THEN [columns |-> columns, found |-> FALSE, altered |-> FALSE,
          end |-> IF fault = "locked_pragma" THEN "locked" ELSE "error"]
    ELSE IF HasAnnualEPS(columns)
    THEN [columns |-> columns, found |-> TRUE, altered |-> FALSE, end |-> "True"]
    ELSE IF fault \in {"locked_alter", "error_alter"}
    THEN [columns |-> columns, found |-> FALSE, altered |-> FALSE,
          end |-> IF fault = "locked_alter" THEN "locked" ELSE "error"]
    ELSE [columns |-> Append(columns, "AnnualEPS"), found |-> FALSE, altered |-> TRUE,
          end |-> IF fault = "locked_verify" THEN "locked"
                  ELSE IF fault = "error_verify" THEN "error" ELSE "True"]

\* Variant: a locked attempt is always retried.
ShouldRetry_always(attempt) == TRUE

\* "if attempt < max_retries - 1"
ShouldRetry(attempt) == attempt < max_retries - 1

\* One iteration of "for attempt in range(max_retries)", with the sleep that
\* precedes the next iteration and the "return False" that follows the loop.
ForceTry(fault) ==
    /\ force # Idle /\ force.pc = "loop" /\ force.attempt < max_retries
    /\ LET a == ForceAttempt(YearlyColumns, fault)
           retry == a.end = "locked" /\ ShouldRetry(force.attempt)
           last == force.attempt + 1 = max_retries
       IN /\ YearlyColumns' = a.columns
          /\ force' = [force EXCEPT
                !.log = Append(@, [attempt |-> force.attempt, fault |-> fault,
                                   end |-> a.end, found |-> a.found,
                                   altered |-> a.altered]),
                !.sleeps = IF retry THEN Append(@, RETRY_SLEEP) ELSE @,
                !.attempt = IF retry THEN @ + 1 ELSE @,
                !.pc = IF retry /\ ~last THEN "loop" ELSE "returned",
                !.ret = IF retry THEN FALSE ELSE a.end = "True"]
    /\ UNCHANGED <<DividendModels, YearlyDividends, lastOp, fetched, importVars, toolVars,
                   ApiUsageLogs, IndexApiUsageLogs, safety, indicators, strategy,
                   analyzer, seasonal, fetcher>>

\* "sys.exit(0 if success else 1)"
ForceExit ==
    /\ force # Idle /\ force.pc = "returned"
    /\ force' = [force EXCEPT !.pc = "exited", !.exit = ExitStatus(force.ret)]
    /\ UNCHANGED <<dbVars, importVars, toolVars, ApiUsageLogs, IndexApiUsageLogs, safety,
                   indicators, strategy, analyzer, seasonal, fetcher>>

InitForce ==
    /\ YearlyColumns \in {BaseColumns, Append(BaseColumns, "AnnualEPS")}
    /\ force = [attempt |-> 0, pc |-> "loop", ret |-> FALSE, exit |-> NoneNum,
                log |-> <<>>, sleeps |-> <<>>]
    /\ DbIdle /\ ImportIdle /\ ToolsIdle
    /\ LogsIdle /\ SafetyIdle /\ IndicatorsIdle /\ StrategyIdle /\ AnalyzerIdle
    /\ SeasonalIdle /\ FetcherIdle

NextForce ==
    \/ \E fault \in ForceFaults : ForceTry(fault)
    \/ ForceExit

SpecForce == InitForce /\ [][NextForce]_allVars

\* The function has returned
ForceReturned == force # Idle /\ force.pc \in {"returned", "exited"}
ForceStep == \E fault \in ForceFaults : ForceTry(fault)

\* What C11 says about attempts, retries, sleeps and the False results
ForceRetryDiscipline ==
    force # Idle =>
        /\ Len(force.log) <= 3
        /\ ~ForceReturned => (Len(force.log) < 3 /\ ENABLED ForceStep)
        /\ \A i \in DOMAIN force.log :
              i > 1 => (force.log[i - 1].end = "locked" /\ i - 1 <= 2)
        /\ Len(force.sleeps) = (IF ForceReturned THEN Len(force.log) - 1
                                ELSE Len(force.log))
        /\ \A i \in DOMAIN force.sleeps : force.sleeps[i] = 2000
        /\ \A i \in DOMAIN force.log :
              /\ (force.log[i].end = "locked" /\ i = 3) => (ForceReturned /\ ~force.ret)
              /\ force.log[i].end = "error" =>
                    (ForceReturned /\ ~force.ret /\ i = Len(force.log))

\* C11 as stated: at most 3 attempts, a new attempt only after a 'locked'
\* error on one of the first two, a 2 second sleep before each retry, False
\* after the third locked failure and at once on any other error, and True
\* as soon as an attempt finds or adds the AnnualEPS column.
C11_TrueAsSoonAsFoundOrAdded ==
    /\ ForceRetryDiscipline
    /\ force # Idle =>
          \A i \in DOMAIN force.log :
              (force.log[i].found \/ force.log[i].altered) =>
                  (ForceReturned /\ force.ret /\ i = Len(force.log))

\* C11 amended: the same, except that True is returned as soon as an attempt
\* finds the column, or adds it and reads the schema back without an error;
\* an attempt whose read-back after the ALTER TABLE raises has added the
\* column but counts as a failed attempt (retried when 'locked', False
\* otherwise).
C11_TrueAsSoonAsFoundOrAddedAndReadBack ==
    /\ ForceRetryDiscipline
    /\ force # Idle =>
          \A i \in DOMAIN force.log :
              /\ (force.log[i].found
                     \/ (force.log[i].altered
                            /\ force.log[i].fault \notin {"locked_verify", "error_verify"}))
                 => (ForceReturned /\ force.ret /\ i = Len(force.log))
              /\ force.log[i].end = "True" =>
                    (force.log[i].found \/ force.log[i].altered)
          /\ (ForceReturned /\ force.ret) => force.log[Len(force.log)].end = "True"

\* A run that was locked twice and added the column on its third attempt.
C11_Witness ==
    /\ ForceReturned /\ force.ret
    /\ Len(force.log) = 3 /\ force.log[3].altered
    /\ force.sleeps = <<2000, 2000>>

(* ---------------------------------------------------------------------- *)
(* The request logs: log_api_usage of fetch_index_data.py and              *)
(* clear_all_data.py                                                       *)
(* ---------------------------------------------------------------------- *)
MaxLogs == 3

IndexSymbols == {"^GSPC", "^IXIC"}
RecordCounts == {0, 250}

\* ApiUsageLogs is written by the backend, not by a script: the rows that
\* are there when the scripts run
BackendLogs == {<<[Id |-> 1, Symbol |-> "AAA", Success |-> 1]>>,
                <<[Id |-> 1, Symbol |-> "AAA", Success |-> 1],
                  [Id |-> 2, Symbol |-> "BBB", Success |-> 0]>>}

LogRow(id, symbol, api_source, success, error_msg, records_fetched) ==
    [Id |-> id, Symbol |-> symbol, ApiSource |-> api_source,
     Success |-> IF success THEN 1 ELSE 0, ErrorMessage |-> error_msg,
     RecordsFetched |-> records_fetched]

\* Variant: the newest row is overwritten instead of a row being added.
InsertLog_overwrite(logs, row) ==
    IF logs = <<>> THEN <<row>> ELSE [logs EXCEPT ![Len(logs)] = row]

\* INSERT INTO IndexApiUsageLogs ... VALUES (...)
InsertLog(logs, row) == Append(logs, row)

\* log_api_usage: one INSERT and a commit; an exception is only printed.
log_api_usage(symbol, api_source, success, error_msg, records_fetched, fault) ==
    /\ Len(IndexApiUsageLogs) < MaxLogs
    /\ IndexApiUsageLogs' =
          IF fault = "none"
          THEN InsertLog(IndexApiUsageLogs,
                         LogRow(Len(IndexApiUsageLogs) + 1, symbol, api_source, success,
                                error_msg, records_fetched))
          ELSE IndexApiUsageLogs
    /\ UNCHANGED <<dbVars, ApiUsageLogs, importVars, toolVars, force, safety, indicators,
                   strategy, analyzer, seasonal, fetcher>>

\* fetch_index_data logs a failed fetch; process_all_indices logs a stored one.
LogFetch(symbol, fetched_ok, records_fetched, fault) ==
    IF fetched_ok
    THEN log_api_usage(symbol, "Yahoo Finance", TRUE, None, records_fetched, fault)
    ELSE log_api_usage(symbol, "Yahoo Finance", FALSE, "error", 0, fault)

\* clear_all_data.py: after the answer 'yes' the four DELETEs and the commit;
\* an exception leaves the transaction uncommitted.
clear_all_data(response, fault) ==
    /\ IF response = "yes" /\ fault = "none"
       THEN /\ YearlyDividends' = <<>>
            /\ DividendModels' = {}
            /\ ApiUsageLogs' = <<>>
       ELSE UNCHANGED <<YearlyDividends, DividendModels, ApiUsageLogs, fetcher>>
    /\ UNCHANGED <<YearlyColumns, lastOp, fetched, IndexApiUsageLogs, importVars, toolVars,
                   force, safety, indicators, strategy, analyzer, seasonal, fetcher>>

InitLogs ==
    /\ ApiUsageLogs \in BackendLogs
    /\ IndexApiUsageLogs = <<>>
    /\ \E stored \in {<<>>, <<"AAA", "BBB">>} :
          /\ DividendModels = StoredDb(stored)[1]
          /\ YearlyDividends = StoredDb(stored)[2]
    /\ YearlyColumns = Append(BaseColumns, "AnnualEPS")
    /\ NoCall /\ ImportIdle /\ ToolsIdle
    /\ ForceIdle /\ SafetyIdle /\ IndicatorsIdle /\ StrategyIdle /\ AnalyzerIdle
    /\ SeasonalIdle /\ FetcherIdle

NextLogs ==
    \/ \E symbol \in IndexSymbols, fetched_ok \in BOOLEAN, n \in RecordCounts,
          fault \in {"none", "error"} : LogFetch(symbol, fetched_ok, n, fault)
    \/ \E response \in {"yes", "no"}, fault \in {"none", "error"} :
          clear_all_data(response, fault)

SpecLogs == InitLogs /\ [][NextLogs]_allVars

\* Every row of before is still there, unchanged and in place, in after
OnlyAppended(before, after) ==
    /\ Len(before) <= Len(after)
    /\ \A i \in DOMAIN before : after[i] = before[i]

\* C12 as stated: no step updates or deletes a row of ApiUsageLogs or of
\* IndexApiUsageLogs; rows are only inserted.
C12_LogsAppendOnly ==
    [][/\ OnlyAppended(ApiUsageLogs, ApiUsageLogs')
       /\ OnlyAppended(IndexApiUsageLogs, IndexApiUsageLogs')]_allVars

\* C12 amended: no step updates or deletes a row of IndexApiUsageLogs; no
\* step updates a row of ApiUsageLogs, and the only step that deletes rows
\* of it is clear_all_data, which empties it together with DividendModels
\* and YearlyDividends.
C12_LogsAppendOnlyExceptClear ==
    [][/\ OnlyAppended(IndexApiUsageLogs, IndexApiUsageLogs')
       /\ \/ OnlyAppended(ApiUsageLogs, ApiUsageLogs')
          \/ (ApiUsageLogs' = <<>> /\ DividendModels' = {} /\ YearlyDividends' = <<>>
                 /\ IndexApiUsageLogs' = IndexApiUsageLogs)]_allVars

\* Index requests were logged and clear_all_data has emptied ApiUsageLogs.
C12_Witness ==
    /\ Len(IndexApiUsageLogs) >= 2
    /\ IndexApiUsageLogs[1].Success = 0
    /\ ApiUsageLogs = <<>>
    /\ DividendModels = {}

(* ---------------------------------------------------------------------- *)
(* update_stocks_from_yahoo.py: calculate_safety_score                     *)
(* Yield, payout ratio, growth rate and beta are in hundredths; the score  *)
(* and its components are in tenths of a point.                            *)
(* ---------------------------------------------------------------------- *)
DividendYields == {NoneNum, 0, 0 - 100, 50, 100, 199, 200, 600, 601, 800, 801}
PayoutRatios == {NoneNum, 0, 0 - 100, 4999, 5000, 5999, 6000, 7499, 7500, 8999, 9000}
GrowthRates == {NoneNum, 0, 0 - 500, 1, 499, 500, 999, 1000}
ConsecutiveYears == {NoneNum, 0, 1, 4, 5, 9, 10, 24, 25}
Betas == {NoneNum, 0, 0 - 50, 79, 80, 99, 100, 119, 120, 149, 150}

\* Python's truth value of an optional number: None and 0 are false
Truthy_num(x) == x # NoneNum /\ x # 0

\* Dividend Yield Score
YieldScore(dividend_yield) ==
    IF Truthy_num(dividend_yield)
    THEN IF 200 <= dividend_yield /\ dividend_yield <= 600 THEN 10
         ELSE IF (100 <= dividend_yield /\ dividend_yield < 200)
                 \/ (600 < dividend_yield /\ dividend_yield <= 800) THEN 7
         ELSE IF dividend_yield > 0 THEN 3
         ELSE 0
    ELSE 0

\* Variant: a payout ratio of 90% or more is penalised.
PayoutScore_penalty(payout_ratio, dividend_yield) ==
    IF Truthy_num(payout_ratio)
    THEN IF payout_ratio < 5000 THEN 10
         ELSE IF payout_ratio < 6000 THEN 8
         ELSE IF payout_ratio < 7500 THEN 5
         ELSE IF payout_ratio < 9000 THEN 3
         ELSE 0 - 3
    ELSE IF Truthy_num(dividend_yield) /\ dividend_yield > 0 THEN 5
    ELSE 0

\* Payout Ratio Score
PayoutScore(payout_ratio, dividend_yield) ==
    IF Truthy_num(payout_ratio)
    THEN IF payout_ratio < 5000 THEN 10
         ELSE IF payout_ratio < 6000 THEN 8
         ELSE IF payout_ratio < 7500 THEN 5
         ELSE IF payout_ratio < 9000 THEN 3
         ELSE 0
    ELSE IF Truthy_num(dividend_yield) /\ dividend_yield > 0 THEN 5
    ELSE 0

\* Dividend Growth Rate Score
GrowthScore(dividend_growth_rate) ==
    IF Truthy_num(dividend_growth_rate)
    THEN IF dividend_growth_rate >= 1000 THEN 10
         ELSE IF dividend_growth_rate >= 500 THEN 8
         ELSE IF dividend_growth_rate >= 0 THEN 5
         ELSE 0
    ELSE 0

\* Consecutive Years Score; the comparisons need a number
YearsScore(consecutive_years) ==
    IF consecutive_years >= 25 THEN 10
    ELSE IF consecutive_years >= 10 THEN 8
    ELSE IF consecutive_years >= 5 THEN 5
    ELSE IF consecutive_years > 0 THEN 3
    ELSE 0

\* Beta Score
BetaScore(beta) ==
    IF Truthy_num(beta)
    THEN IF beta < 80 THEN 10
         ELSE IF beta < 100 THEN 8
         ELSE IF beta < 120 THEN 5
         ELSE IF beta < 150 THEN 3
         ELSE 0
    ELSE 0

Rating(score) ==
    IF score >= 45 THEN "Excellent"
    ELSE IF score >= 35 THEN "Very Good"
    ELSE IF score >= 25 THEN "Good"
    ELSE IF score >= 15 THEN "Fair"
    ELSE IF score >= 5 THEN "Below Average"
    ELSE "Poor"

\* calculate_safety_score: the five components, the score and the rating;
\* "consecutive_years >= 25" raises TypeError when consecutive_years is None.
calculate_safety_score(dividend_yield, payout_ratio, dividend_growth_rate, consecutive_years, beta) ==
    IF consecutive_years = NoneNum
    THEN [raised |-> TRUE, parts |-> <<>>, score |-> 0, rating |-> None]
    ELSE LET parts == <<YieldScore(dividend_yield),
                        PayoutScore(payout_ratio, dividend_yield),
                        GrowthScore(dividend_growth_rate),
                        YearsScore(consecutive_years),
                        BetaScore(beta)>>
             score == parts[1] + parts[2] + parts[3] + parts[4] + parts[5]
         IN [raised |-> FALSE, parts |-> parts, score |-> score, rating |-> Rating(score)]

CallSafetyScore ==
    /\ safety # Idle /\ ~safety.returned
    /\ safety' = [safety EXCEPT
                     !.returned = TRUE,
                     !.result = calculate_safety_score(
                                    safety.dividend_yield, safety.payout_ratio,
                                    safety.dividend_growth_rate, safety.consecutive_years,
                                    safety.beta)]
    /\ UNCHANGED <<dbVars, importVars, toolVars, force, ApiUsageLogs, IndexApiUsageLogs,
                   indicators, strategy, analyzer, seasonal, fetcher>>

InitSafety ==
    /\ safety \in [dividend_yield : DividendYields, payout_ratio : PayoutRatios,
                   dividend_growth_rate : GrowthRates,
                   consecutive_years : ConsecutiveYears, beta : Betas,
                   returned : {FALSE},
                   result : {[raised |-> FALSE, parts |-> <<>>, score |-> 0,
                              rating |-> None]}]
    /\ DbIdle /\ YearlyColumns = Append(BaseColumns, "AnnualEPS")
    /\ ImportIdle /\ ToolsIdle
    /\ ForceIdle /\ LogsIdle /\ IndicatorsIdle /\ StrategyIdle /\ AnalyzerIdle
    /\ SeasonalIdle /\ FetcherIdle

NextSafety == CallSafetyScore

SpecSafety == InitSafety /\ [][NextSafety]_allVars

\* The call returned a score between 0 and 5 made of five components
\* between 0 and 1
ScoreInRange ==
    /\ ~safety.result.raised
    /\ 0 <= safety.result.score /\ safety.result.score <= 50
    /\ Len(safety.result.parts) = 5
    /\ \A i \in 1..5 : 0 <= safety.result.parts[i] /\ safety.result.parts[i] <= 10

\* C13 as stated: for every combination of inputs, each possibly None or 0,
\* the call returns a score between 0 and 5 whose five components are each
\* between 0 and 1.
C13_ScoreBetween0And5 ==
    (safety # Idle /\ safety.returned) => ScoreInRange

\* C13 amended: the same for every combination in which consecutive_years
\* is a number (the other four inputs possibly None or 0); with
\* consecutive_years None the call raises TypeError instead of returning.
C13_ScoreBetween0And5ForNumericYears ==
    (safety # Idle /\ safety.returned) =>
        IF safety.consecutive_years = NoneNum
        THEN safety.result.raised
        ELSE ScoreInRange

\* A call that scored the full 5 points.
C13_Witness ==
    /\ safety # Idle /\ safety.returned
    /\ safety.result.score = 50
    /\ safety.result.parts = <<10, 10, 10, 10, 10>>

\* ---------------------------------------------------------------------
\* Technical indicators: calculate_sma, calculate_ema and calculate_rsi of
\* backtest_single_commodity.py and the same columns of
\* StrategyAnalyzer.calculate_indicators.
\*
\* Column values are exact fractions n/d, the IEEE values NaN and +/-inf
\* kept apart so that 0/0 and x/0 behave as pandas computes them.
\* ---------------------------------------------------------------------
MaxBars == 4
BarPrices == {1, 2, 3}
Periods == {2, 3}
oversold == 30
overbought == 70

NaN == [kind |-> "nan", n |-> 0, d |-> 1]
Inf(sign) == [kind |-> "inf", n |-> sign, d |-> 1]
RECURSIVE Gcd(_, _)
Gcd(a, b) == IF b = 0 THEN a ELSE Gcd(b, a % b)
Abs(k) == IF k < 0 THEN 0 - k ELSE k
\* the fraction n/d in lowest terms with a positive denominator
Fin(n, d) ==
    LET g == Gcd(Abs(n), Abs(d))
        s == IF d < 0 THEN 0 - 1 ELSE 1
    IN  [kind |-> "fin", n |-> s * (n \div g), d |-> s * (d \div g)]
Whole(k) == Fin(k, 1)
Sign(k) == IF k < 0 THEN 0 - 1 ELSE 1

FNeg(a) == IF a.kind = "nan" THEN NaN
           ELSE IF a.kind = "inf" THEN Inf(0 - a.n)
           ELSE Fin(0 - a.n, a.d)

FAdd(a, b) ==
    IF a.kind = "nan" \/ b.kind = "nan" THEN NaN
    ELSE IF a.kind = "inf" /\ b.kind = "inf"
         THEN IF a.n = b.n THEN a ELSE NaN
    ELSE IF a.kind = "inf" THEN a
    ELSE IF b.kind = "inf" THEN b
    ELSE Fin(a.n * b.d + b.n * a.d, a.d * b.d)

FSub(a, b) == LET minus == FNeg(b) IN FAdd(a, minus)

FMul(a, b) ==
    IF a.kind = "nan" \/ b.kind = "nan" THEN NaN
    ELSE IF a.kind = "inf" \/ b.kind = "inf"
         THEN IF a.n = 0 \/ b.n = 0 THEN NaN ELSE Inf(Sign(a.n) * Sign(b.n))
    ELSE Fin(a.n * b.n, a.d * b.d)

\* a variant of the float division in which 0/0 is 0
FDiv_zero_over_zero(a, b) ==
    IF a.kind = "nan" \/ b.kind = "nan" THEN NaN
    ELSE IF b.kind = "inf"
         THEN IF a.kind = "inf" THEN NaN ELSE Whole(0)
    ELSE IF a.kind = "inf" THEN Inf(a.n * Sign(b.n))
    ELSE IF b.n = 0
         THEN IF a.n = 0 THEN Whole(0) ELSE Inf(Sign(a.n))
    ELSE Fin(a.n * b.d, a.d * b.n)

\* float division: 0/0 is NaN, x/0 is an infinity, x/inf is 0
FDiv(a, b) ==
    IF a.kind = "nan" \/ b.kind = "nan" THEN NaN
    ELSE IF b.kind = "inf"
         THEN IF a.kind = "inf" THEN NaN ELSE Whole(0)
    ELSE IF a.kind = "inf" THEN Inf(a.n * Sign(b.n))
    ELSE IF b.n = 0
         THEN IF a.n = 0 THEN NaN ELSE Inf(Sign(a.n))
    ELSE Fin(a.n * b.d, a.d * b.n)

\* comparisons: every comparison with NaN is False
FLt(a, b) ==
    /\ a.kind # "nan" /\ b.kind # "nan"
    /\ \/ a.kind = "inf" /\ a.n < 0 /\ ~(b.kind = "inf" /\ b.n < 0)
       \/ b.kind = "inf" /\ b.n > 0 /\ ~(a.kind = "inf" /\ a.n > 0)
       \/ a.kind = "fin" /\ b.kind = "fin" /\ a.n * b.d < b.n * a.d
FEq(a, b) ==
    /\ a.kind # "nan" /\ b.kind # "nan"
    /\ \/ a.kind = "inf" /\ b.kind = "inf" /\ a.n = b.n
       \/ a.kind = "fin" /\ b.kind = "fin" /\ a.n * b.d = b.n * a.d
FGt(a, b) == FLt(b, a)
FLe(a, b) == FLt(a, b) \/ FEq(a, b)
FGe(a, b) == FLe(b, a)

RECURSIVE SumRange(_, _, _)
SumRange(s, lo, hi) == IF hi < lo THEN 0 ELSE s[hi] + SumRange(s, lo, hi - 1)

\* Series.rolling(window=period).mean() over whole numbers: NaN until the
\* window is full
rolling_mean(s, period) ==
    [i \in 1..Len(s) |->
        IF i < period THEN NaN
        ELSE Fin(SumRange(s, i - period + 1, i), period)]

calculate_sma(prices, period) == rolling_mean(prices, period)

\* a column of whole numbers as a column of floats
Wholes(prices) == [i \in 1..Len(prices) |-> Whole(prices[i])]

\* Series.ewm(span=period, adjust=False).mean(): y[0] = x[0] and
\* y[t] = alpha*x[t] + (1-alpha)*y[t-1] with alpha = 2/(period+1)
RECURSIVE ewm_rows(_, _, _)
ewm_rows(s, period, n) ==
    IF n = 1 THEN <<s[1]>>
    ELSE LET rows == ewm_rows(s, period, n - 1)
             new == FMul(Fin(2, period + 1), s[n])
             old == FMul(Fin(period - 1, period + 1), rows[n - 1])
         IN  Append(rows, FAdd(new, old))

calculate_ema(s, period) == ewm_rows(s, period, Len(s))

\* prices.diff(): NaN in the first row; delta.where(cond, 0) puts 0 where
\* the comparison is False, the NaN row included
gain_rows(prices) ==
    [i \in 1..Len(prices) |->
        IF i > 1 /\ prices[i] - prices[i - 1] > 0
        THEN prices[i] - prices[i - 1] ELSE 0]
loss_rows(prices) ==
    [i \in 1..Len(prices) |->
        IF i > 1 /\ prices[i] - prices[i - 1] < 0
        THEN 0 - (prices[i] - prices[i - 1]) ELSE 0]

calculate_rsi(prices, period) ==
    LET gain == rolling_mean(gain_rows(prices), period)
        loss == rolling_mean(loss_rows(prices), period)
    IN  [i \in 1..Len(prices) |->
            LET rs == FDiv(gain[i], loss[i])
                one_plus_rs == FAdd(Whole(1), rs)
                quotient == FDiv(Whole(100), one_plus_rs)
            IN  FSub(Whole(100), quotient)]

\* strategy_rsi: the bars (from start_idx on) whose RSI comparisons hold
rsi_entry_bars(rsi, period) ==
    {i \in (period + 1)..Len(rsi) :
        FGt(rsi[i], Whole(oversold)) /\ FLe(rsi[i - 1], Whole(oversold))}
rsi_exit_bars(rsi, period) ==
    {i \in (period + 1)..Len(rsi) :
        FLt(rsi[i], Whole(overbought)) /\ FGe(rsi[i - 1], Whole(overbought))}

\* StrategyAnalyzer.backtest_rsi: row['RSI'] < 30 and row['RSI'] > 70
analyzer_buy_bars(rsi) == {i \in 1..Len(rsi) : FLt(rsi[i], Whole(30))}
analyzer_sell_bars(rsi) == {i \in 1..Len(rsi) : FGt(rsi[i], Whole(70))}

PriceSeries == UNION {[1..n -> BarPrices] : n \in 1..MaxBars}

\* backtest_single_commodity.py computes the columns of a price series
CalculateColumns(prices, period) ==
    /\ indicators' =
         LET rsi == calculate_rsi(prices, period)
         IN  [script |-> "backtest_single_commodity", prices |-> prices,
              period |-> period,
              SMA |-> calculate_sma(prices, period),
              EMA |-> calculate_ema(Wholes(prices), period),
              RSI |-> rsi,
              buys |-> rsi_entry_bars(rsi, period),
              sells |-> rsi_exit_bars(rsi, period)]
    /\ UNCHANGED <<dbVars, importVars, toolVars, force, ApiUsageLogs,
                   IndexApiUsageLogs, safety, strategy, analyzer, seasonal, fetcher>>

\* StrategyAnalyzer.calculate_indicators followed by backtest_rsi's
\* comparisons
calculate_indicators(prices, period) ==
    /\ indicators' =
         LET rsi == calculate_rsi(prices, period)
         IN  [script |-> "multi_strategy_analyzer", prices |-> prices,
              period |-> period,
              SMA |-> rolling_mean(prices, period),
              EMA |-> calculate_ema(Wholes(prices), period),
              RSI |-> rsi,
              buys |-> analyzer_buy_bars(rsi),
              sells |-> analyzer_sell_bars(rsi)]
    /\ UNCHANGED <<dbVars, importVars, toolVars, force, ApiUsageLogs,
                   IndexApiUsageLogs, safety, strategy, analyzer, seasonal, fetcher>>

InitIndicators ==
    /\ DbIdle /\ YearlyColumns = Append(BaseColumns, "AnnualEPS")
    /\ ImportIdle /\ ToolsIdle
    /\ ForceIdle /\ LogsIdle /\ SafetyIdle /\ StrategyIdle /\ AnalyzerIdle
    /\ SeasonalIdle
    /\ indicators = Idle /\ FetcherIdle

NextIndicators ==
    \/ \E prices \in PriceSeries, period \in Periods :
          CalculateColumns(prices, period)
    \/ \E prices \in PriceSeries, period \in Periods :
          calculate_indicators(prices, period)

SpecIndicators == InitIndicators /\ [][NextIndicators]_allVars

\* ---------------------------------------------------------------------
\* Properties of the indicators
\* ---------------------------------------------------------------------
ConstantSeries(prices) == \A i \in 1..Len(prices) : prices[i] = prices[1]

\* C14: for a constant price series the SMA and the EMA equal that constant
\* at every index where they are defined, the RSI is NaN at every index,
\* and no RSI comparison of either script fires.
C14_ConstantSeriesIndicators ==
    (indicators # Idle /\ ConstantSeries(indicators.prices)) =>
        /\ \A i \in 1..Len(indicators.prices) :
              /\ indicators.SMA[i].kind # "nan" =>
                    FEq(indicators.SMA[i], Whole(indicators.prices[1]))
              /\ FEq(indicators.EMA[i], Whole(indicators.prices[1]))
              /\ indicators.RSI[i].kind = "nan"
        /\ indicators.buys = {}
        /\ indicators.sells = {}

\* A constant series longer than the window, so that the SMA is defined and
\* the rolling gain and loss are both 0 on the last bars.
C14_Witness ==
    /\ indicators # Idle
    /\ ConstantSeries(indicators.prices)
    /\ Len(indicators.prices) > indicators.period
    /\ indicators.SMA[Len(indicators.prices)].kind = "fin"
    /\ indicators.RSI[Len(indicators.prices)].kind = "nan"

\* ---------------------------------------------------------------------
\* The strategy functions of backtest_single_commodity.py: buyhold, sma,
\* rsi, macd, bollinger and seasonal.  One step of the model is one
\* iteration of a strategy's loop over the rows of the frame; the close of
\* a position left open after the last row is the final step.
\*
\* A row is a close price with a date; months have 30 days.  The window
\* lengths of the scripts (50/200, 14, 12/26/9, 20, 20) are scaled to lengths a
\* frame of MaxRows rows can fill.
\* ---------------------------------------------------------------------
MaxRows == 8
MaxMonths == 3
BEST_MONTHS == 4

RowPrices == {50, 60}
CalendarDays == {3, 26}
StrategyNames == {"buyhold", "sma", "rsi", "macd", "bollinger", "seasonal"}
StrategyCapitals == {3000, 12000}
\* get_commodity_specs: 'GC=F'
StrategySpecs == {[contractSize |-> 100, margin |-> 8000]}
\* stop_loss_method / stop_loss_value; 'atr' on a frame without the ATR14
\* column gives no stop price
StrategyStops == {[method |-> "percentage", value |-> 10],
                  [method |-> "atr", value |-> 2]}
Windows == [sma_fast |-> 2, sma_slow |-> 3, rsi |-> 2,
            macd_fast |-> 1, macd_slow |-> 3, macd_signal |-> 3,
            bollinger |-> 6, momentum |-> 2]

Ordinal(row) == 30 * (row.month - 1) + row.day
Closes(df) == [i \in 1..Len(df) |-> df[i].Close]

\* frames of consecutive days
DailyFrames ==
    UNION {{[i \in 1..n |-> [Close |-> c[i], month |-> 1, day |-> i]] :
              c \in [1..n -> RowPrices]} : n \in 1..MaxRows}

\* frames whose rows fall early or late in the months 1..MaxMonths
Slots == [month : 1..MaxMonths, day : CalendarDays]
NthSlot(D, i) ==
    CHOOSE s \in D : Cardinality({t \in D : Ordinal(t) < Ordinal(s)}) = i - 1
SeasonalFrames ==
    UNION {{[i \in 1..Cardinality(D) |->
                [Close |-> c[i], month |-> NthSlot(D, i).month,
                 day |-> NthSlot(D, i).day]] :
              c \in [1..Cardinality(D) -> RowPrices]} :
           D \in SUBSET Slots \ {{}}}

NoPosition ==
    [open |-> FALSE, entry_price |-> 0, entry_date |-> 0, contracts |-> 0,
     stop_price |-> NoStop, entry_costs |-> 0, entry_month |-> 0]

Trade(type, price, contracts, reason, stop_price, pnl, commission, overnight) ==
    [type |-> type, price |-> price, contracts |-> contracts,
     reason |-> reason, stopLossPrice |-> stop_price,
     pnl |-> pnl, commission |-> commission, overnightFinancing |-> overnight]

\* start_idx of each loop, as a count of skipped rows
start_idx(name) ==
    CASE name = "sma" -> Windows.sma_slow
      [] name = "rsi" -> Windows.rsi
      [] name = "macd" -> Windows.macd_slow
      [] name = "bollinger" -> Windows.bollinger
      [] OTHER -> 0

\* calculate_macd: the MACD line and its signal line
macd_line(prices) ==
    LET ema_fast == calculate_ema(Wholes(prices), Windows.macd_fast)
        ema_slow == calculate_ema(Wholes(prices), Windows.macd_slow)
    IN  [i \in 1..Len(prices) |-> FSub(ema_fast[i], ema_slow[i])]

\* calculate_bollinger_bands with std_dev = 2 over the window ending at row
\* i: with S the sum and Q the sum of squares of the n closes, the sample
\* variance is (n*Q - S*S) / (n*(n-1)); price <= S/n - 2*std is compared
\* in squares
WindowSum(prices, i, n) == SumRange(prices, i - n + 1, i)
WindowSquares(prices, i, n) ==
    SumRange([k \in 1..Len(prices) |-> prices[k] * prices[k]], i - n + 1, i)
AtOrBelowLowerBand(prices, i, n) ==
    LET S == WindowSum(prices, i, n)
        Q == WindowSquares(prices, i, n)
        dist == S - n * prices[i]
    IN  /\ i >= n
        /\ dist >= 0
        /\ (n - 1) * dist * dist >= 4 * n * (n * Q - S * S)
AtOrAboveMiddleBand(prices, i, n) ==
    i >= n /\ n * prices[i] >= WindowSum(prices, i, n)

\* strategy_seasonal: the return of a month is measured from its first close
\* to the first close of the next month in the frame
MonthsIn(df) == {df[i].month : i \in 1..Len(df)}
FirstClose(df, m) == df[Min({i \in 1..Len(df) : df[i].month = m})].Close
MonthsWithReturn(df) == {m \in MonthsIn(df) : \E k \in MonthsIn(df) : k > m}
avgReturn(df, m) ==
    LET next == Min({k \in MonthsIn(df) : k > m})
    IN  Fin((FirstClose(df, next) - FirstClose(df, m)) * 100, FirstClose(df, m))
\* sorted(..., reverse=True)[:4], equal averages staying in calendar order
best_months(df) ==
    {m \in MonthsWithReturn(df) :
        Cardinality({k \in MonthsWithReturn(df) :
                        \/ FGt(avgReturn(df, k), avgReturn(df, m))
                        \/ FEq(avgReturn(df, k), avgReturn(df, m)) /\ k < m})
          < BEST_MONTHS}

\* the entry test of each loop, row by row (rows before start_idx are not
\* visited)
EntryColumn(name, df) ==
    LET prices == Closes(df)
        rows == (start_idx(name) + 1)..Len(df)
    IN  CASE name = "sma" ->
               LET fast == calculate_sma(prices, Windows.sma_fast)
                   slow == calculate_sma(prices, Windows.sma_slow)
               IN  {i \in rows : FGt(fast[i], slow[i]) /\ FLe(fast[i - 1], slow[i - 1])}
          [] name = "rsi" ->
               LET rsi == calculate_rsi(prices, Windows.rsi)
               IN  {i \in rows : /\ FGt(rsi[i], Whole(oversold))
                                 /\ FLe(rsi[i - 1], Whole(oversold))}
          [] name = "macd" ->
               LET macd == macd_line(prices)
                   signal == calculate_ema(macd, Windows.macd_signal)
               IN  {i \in rows : FGt(macd[i], signal[i]) /\ FLe(macd[i - 1], signal[i - 1])}
          [] name = "bollinger" ->
               {i \in rows : AtOrBelowLowerBand(prices, i, Windows.bollinger)}
          [] name = "seasonal" ->
               {i \in rows : df[i].month \in best_months(df) /\ df[i].day <= 5}
          [] OTHER -> {}

\* the exit test of each loop (the last elif), row by row; the test of
\* strategy_seasonal depends on the open position and is ExitSignal's
ExitColumn(name, df) ==
    LET prices == Closes(df)
        rows == (start_idx(name) + 1)..Len(df)
    IN  CASE name = "sma" ->
               LET fast == calculate_sma(prices, Windows.sma_fast)
                   slow == calculate_sma(prices, Windows.sma_slow)
               IN  {i \in rows : FLt(fast[i], slow[i]) /\ FGe(fast[i - 1], slow[i - 1])}
          [] name = "rsi" ->
               LET rsi == calculate_rsi(prices, Windows.rsi)
               IN  {i \in rows : /\ FLt(rsi[i], Whole(overbought))
                                 /\ FGe(rsi[i - 1], Whole(overbought))}
          [] name = "macd" ->
               LET macd == macd_line(prices)
                   signal == calculate_ema(macd, Windows.macd_signal)
               IN  {i \in rows : FLt(macd[i], signal[i]) /\ FGe(macd[i - 1], signal[i - 1])}
          [] name = "bollinger" ->
               {i \in rows : AtOrAboveMiddleBand(prices, i, Windows.bollinger)}
          [] OTHER -> {}

EntrySignal(s) == s.i \in s.entries
ExitSignal(s) ==
    IF s.name = "seasonal"
    THEN s.df[s.i].month # s.position.entry_month \/ s.df[s.i].day >= 25
    ELSE s.i \in s.exits

\* strategy_seasonal sells in its exit branch only in another month
SellsInExitBranch(name, row, position) ==
    name = "seasonal" => row.month # position.entry_month

\* Variant: the exit signal is tested before the stop-loss.
TakenBranch_exit_first(position, entry, stop, exit) ==
    IF ~position.open /\ entry THEN "entry"
    ELSE IF position.open /\ exit THEN "exit"
    ELSE IF position.open /\ stop THEN "stop"
    ELSE "none"

\* the if / elif / elif chain of a loop iteration
TakenBranch(position, entry, stop, exit) ==
    IF ~position.open /\ entry THEN "entry"
    ELSE IF position.open /\ stop THEN "stop"
    ELSE IF position.open /\ exit THEN "exit"
    ELSE "none"

\* Variant: the position stays open after a SELL.
PositionAfterSell_kept(position) == position

\* "position = None" after a SELL
PositionAfterSell(position) == NoPosition

EntryReason(name) ==
    CASE name = "sma" -> "SMA50 crossed above SMA200"
      [] name = "rsi" -> "RSI crossed above 30 (oversold)"
      [] name = "macd" -> "MACD crossed above Signal"
      [] name = "bollinger" -> "Price touched lower Bollinger Band"
      [] OTHER -> "Start of month (best month)"
ExitReason(name) ==
    CASE name = "sma" -> "SMA50 crossed below SMA200"
      [] name = "rsi" -> "RSI crossed below 70 (overbought)"
      [] name = "macd" -> "MACD crossed below Signal"
      [] name = "bollinger" -> "Price returned to middle band"
      [] OTHER -> "End of month"

\* the entry branch: nothing happens when no contract can be afforded
Enter(s, row) ==
    LET contracts == s.remaining_capital \div (s.specs.margin * Scale)
        stop_price == calculate_stop_loss(row.Close, s.stop_loss_method,
                                          s.stop_loss_value, NoneNum, NoneNum, "long")
        entry_costs == TradeCosts(contracts)
    IN  IF contracts >= 1
        THEN [s EXCEPT
               !.position = [open |-> TRUE, entry_price |-> row.Close,
                             entry_date |-> Ordinal(row), contracts |-> contracts,
                             stop_price |-> stop_price, entry_costs |-> entry_costs,
                             entry_month |-> row.month],
               !.trades = Append(@, Trade("BUY", row.Close * Scale, contracts,
                                          EntryReason(s.name), stop_price, 0,
                                          entry_costs, 0)),
               !.remaining_capital = @ - (s.specs.margin * contracts * Scale + entry_costs),
               !.total_costs = @ + entry_costs]
        ELSE s

\* a SELL of the open position on the given row at exit_price
Sell(s, row, exit_price, reason) ==
    LET position == s.position
        days_held == Ordinal(row) - position.entry_date
        exit_costs == TradeCosts(position.contracts)
        overnight == overnight_costs(s.specs, position.contracts, days_held)
        pnl == (exit_price - position.entry_price * Scale)
                 * s.specs.contractSize * position.contracts
    IN  [s EXCEPT
          !.trades = Append(@, Trade("SELL", exit_price, position.contracts, reason,
                                     NoStop, pnl, exit_costs, overnight)),
          !.remaining_capital = @ + s.specs.margin * position.contracts * Scale
                                  + pnl - exit_costs - overnight,
          !.total_costs = @ + exit_costs + overnight,
          !.position = PositionAfterSell(position)]

\* one iteration of the loop of a signal strategy
StrategyBar ==
    /\ strategy # Idle /\ strategy.name # "buyhold"
    /\ strategy.pc = "loop" /\ strategy.i <= Len(strategy.df)
    /\ LET s == strategy
           row == s.df[s.i]
           entry == EntrySignal(s)
           stop == s.position.open /\ StopHit(s.position.stop_price, row.Close)
           exit == s.position.open /\ ExitSignal(s)
           branch == TakenBranch(s.position, entry, stop, exit)
           after ==
             CASE branch = "entry" -> Enter(s, row)
               [] branch = "stop" ->
                    Sell(s, row, s.position.stop_price.price, "Stop-loss triggered")
               [] branch = "exit" ->
                    IF SellsInExitBranch(s.name, row, s.position)
                    THEN Sell(s, row, row.Close * Scale, ExitReason(s.name))
                    ELSE s
               [] OTHER -> s
       IN  strategy' = [after EXCEPT
                          !.i = s.i + 1,
                          !.last = [branch |-> branch, stop |-> stop, exit |-> exit,
                                    was_open |-> s.position.open,
                                    stop_price |-> s.position.stop_price,
                                    trades_before |-> Len(s.trades)]]
    /\ UNCHANGED <<dbVars, importVars, toolVars, force, ApiUsageLogs,
                   IndexApiUsageLogs, safety, indicators, analyzer, seasonal, fetcher>>

NoBar == [branch |-> "none", stop |-> FALSE, exit |-> FALSE, was_open |-> FALSE,
          stop_price |-> NoStop, trades_before |-> 0]

\* after the loop: "if position:" closes at the last close; the function
\* returns trades, total_costs and final_value = remaining_capital
StrategyClose ==
    /\ strategy # Idle /\ strategy.name # "buyhold"
    /\ strategy.pc = "loop" /\ strategy.i > Len(strategy.df)
    /\ LET s == strategy
           row == s.df[Len(s.df)]
           after == IF s.position.open
                    THEN Sell(s, row, row.Close * Scale, "End of period")
                    ELSE s
       IN  strategy' = [after EXCEPT !.pc = "returned",
                                     !.final_value = after.remaining_capital,
                                     !.last = [NoBar EXCEPT
                                                 !.was_open = s.position.open,
                                                 !.trades_before = Len(s.trades)]]
    /\ UNCHANGED <<dbVars, importVars, toolVars, force, ApiUsageLogs,
                   IndexApiUsageLogs, safety, indicators, analyzer, seasonal, fetcher>>

\* strategy_buy_hold runs from entry to return
StrategyBuyHold ==
    /\ strategy # Idle /\ strategy.name = "buyhold" /\ strategy.pc = "loop"
    /\ LET r == strategy_buy_hold(Closes(strategy.df), strategy.capital, strategy.specs,
                                  strategy.stop_loss_method, strategy.stop_loss_value)
       IN  strategy' = [strategy EXCEPT !.pc = "returned",
                                        !.i = Len(strategy.df) + 1,
                                        !.trades = r.trades,
                                        !.total_costs = r.total_costs,
                                        !.final_value = r.final_value]
    /\ UNCHANGED <<dbVars, importVars, toolVars, force, ApiUsageLogs,
                   IndexApiUsageLogs, safety, indicators, analyzer, seasonal, fetcher>>

\* the state of a strategy function at its first loop iteration
StartStrategy(name, df, capital, specs, stop) ==
    [name |-> name, df |-> df, entries |-> EntryColumn(name, df),
     exits |-> ExitColumn(name, df), capital |-> capital, specs |-> specs,
     stop_loss_method |-> stop.method, stop_loss_value |-> stop.value,
     i |-> start_idx(name) + 1, pc |-> "loop", position |-> NoPosition,
     trades |-> <<>>, remaining_capital |-> capital * Scale, total_costs |-> 0,
     final_value |-> 0, last |-> NoBar]

InitStrategy ==
    /\ \E name \in StrategyNames, capital \in StrategyCapitals,
          specs \in StrategySpecs, stop \in StrategyStops :
          \E df \in (IF name = "seasonal" THEN SeasonalFrames ELSE DailyFrames) :
             strategy = StartStrategy(name, df, capital, specs, stop)
    /\ DbIdle /\ YearlyColumns = Append(BaseColumns, "AnnualEPS")
    /\ ImportIdle /\ ToolsIdle
    /\ ForceIdle /\ LogsIdle /\ SafetyIdle /\ IndicatorsIdle /\ AnalyzerIdle
    /\ SeasonalIdle /\ FetcherIdle

NextStrategy == StrategyBar \/ StrategyClose \/ StrategyBuyHold

SpecStrategy == InitStrategy /\ [][NextStrategy]_allVars

\* ---------------------------------------------------------------------
\* Properties of the strategy functions
\* ---------------------------------------------------------------------
Returned == strategy # Idle /\ strategy.pc = "returned"

Alternates(trades) ==
    \A k \in 1..Len(trades) :
        trades[k].type = (IF k % 2 = 1 THEN "BUY" ELSE "SELL")

\* C15: in every strategy at most one position is open at any time: the
\* returned trade list strictly alternates BUY, SELL, starts with a BUY and
\* ends with a SELL, a position open after the last row being closed with
\* reason 'End of period'; the numbers of BUY and SELL trades are equal.
C15_TradesAlternate ==
    /\ (strategy # Idle) =>
          /\ Alternates(strategy.trades)
          /\ strategy.position.open <=> (Len(strategy.trades) % 2 = 1)
    /\ Returned =>
          /\ ~strategy.position.open
          /\ Len(strategy.trades) % 2 = 0
          /\ Len(SelectSeq(strategy.trades, LAMBDA t : t.type = "BUY"))
               = Len(SelectSeq(strategy.trades, LAMBDA t : t.type = "SELL"))
    /\ (Returned /\ strategy.last.was_open) =>
          /\ Len(strategy.trades) = strategy.last.trades_before + 1
          /\ strategy.trades[Len(strategy.trades)].reason = "End of period"

\* A signal strategy returned two round trips, the second one closed at the
\* end of the period.
C15_Witness ==
    /\ Returned /\ strategy.name # "buyhold"
    /\ Len(strategy.trades) = 4
    /\ strategy.trades[4].reason = "End of period"
    /\ strategy.trades[2].reason # "End of period"

RECURSIVE SumPnl(_)
SumPnl(trades) ==
    IF trades = <<>> THEN 0
    ELSE (IF Head(trades).type = "SELL" THEN Head(trades).pnl ELSE 0)
           + SumPnl(Tail(trades))

RECURSIVE SumCosts(_)
SumCosts(trades) ==
    IF trades = <<>> THEN 0
    ELSE Head(trades).commission + Head(trades).overnightFinancing
           + SumCosts(Tail(trades))

\* the returned triple: final_value = capital + sum of pnl - total_costs,
\* total_costs being the sum of the costs of all trades
BalancedTriple ==
    /\ strategy.total_costs = SumCosts(strategy.trades)
    /\ strategy.final_value =
         strategy.capital * Scale + SumPnl(strategy.trades) - strategy.total_costs

\* C16: for every strategy function, strategy_buy_hold included, the
\* returned triple satisfies final_value = capital + (sum of pnl over all
\* SELL trades) - total_costs, total_costs being the sum of all entry costs,
\* exit costs and overnight financing.
C16_FinalValueBalances ==
    Returned => BalancedTriple

\* The same for the five signal strategies alone, whose loops charge every
\* cost once.
C16_SignalStrategiesBalance ==
    (Returned /\ strategy.name # "buyhold") => BalancedTriple

\* strategy_buy_hold subtracts the entry costs from remaining_capital and
\* again within total_costs: the final value is short by the entry costs.
C16_BuyHoldChargesEntryTwice ==
    (Returned /\ strategy.name = "buyhold" /\ strategy.trades # <<>>) =>
        /\ strategy.total_costs = SumCosts(strategy.trades)
        /\ strategy.final_value =
             strategy.capital * Scale + SumPnl(strategy.trades)
               - strategy.total_costs - strategy.trades[1].commission

RoundHundredths(x) ==
    LET q == (100 * x.n) \div x.d
        r == (100 * x.n) % x.d
    IN  IF 2 * r < x.d THEN q
        ELSE IF 2 * r > x.d THEN q + 1
        ELSE IF q % 2 = 0 THEN q ELSE q + 1

\* round(x, 2) of a float: NaN and the infinities round to themselves
round2(x) == IF x.kind = "fin" THEN Fin(RoundHundredths(x), 100) ELSE x

AnalyzerCapitals == {0, 100}
AnalyzerFrames == DailyFrames

AnalyzerMethods == <<"sma_crossover", "rsi", "macd", "bollinger_bands",
                     "momentum", "monthly_seasonal">>

\* range(200 / 14 / 26 / 20 / 20, len(df)) and range(len(df))
analyzer_start(method) ==
    CASE method = "sma_crossover" -> Windows.sma_slow
      [] method = "rsi" -> Windows.rsi
      [] method = "macd" -> Windows.macd_slow
      [] method = "bollinger_bands" -> Windows.bollinger
      [] method = "momentum" -> Windows.momentum
      [] OTHER -> 0

AtOrAboveUpperBand(prices, i, n) ==
    LET S == WindowSum(prices, i, n)
        Q == WindowSquares(prices, i, n)
        dist == n * prices[i] - S
    IN  /\ i >= n
        /\ dist >= 0
        /\ (n - 1) * dist * dist >= 4 * n * (n * Q - S * S)

\* df.iloc[i-20:i]['High'].max() and ['Low'].min()
prev_high(prices, i) == Max({prices[k] : k \in (i - Windows.momentum)..(i - 1)})
prev_low(prices, i) == Min({prices[k] : k \in (i - Windows.momentum)..(i - 1)})

\* backtest_monthly_seasonal: the mean daily return of each month
RECURSIVE FSum(_, _)
FSum(f, I) ==
    IF I = {} THEN Whole(0)
    ELSE LET k == CHOOSE x \in I : TRUE
             rest == FSum(f, I \ {k})
         IN  FAdd(f[k], rest)
daily_return(df) ==
    [i \in 1..Len(df) |->
        IF i = 1 THEN NaN
        ELSE Fin((df[i].Close - df[i - 1].Close) * 100, df[i - 1].Close)]
ReturnRows(df, m) == {i \in 2..Len(df) : df[i].month = m}
MonthsWithDailyReturn(df) == {df[i].month : i \in 2..Len(df)}
avg_return(df, m) ==
    LET total == FSum(daily_return(df), ReturnRows(df, m))
    IN  FDiv(total, Whole(Cardinality(ReturnRows(df, m))))
\* position of a month in sorted(monthly_stats, reverse=True), from 0
RankOf(df, m) ==
    Cardinality({k \in MonthsWithDailyReturn(df) :
                    \/ FGt(avg_return(df, k), avg_return(df, m))
                    \/ FEq(avg_return(df, k), avg_return(df, m)) /\ k < m})
analyzer_best_months(df) ==
    {m \in MonthsWithDailyReturn(df) : RankOf(df, m) < BEST_MONTHS}

\* the rows on which the BUY test of a backtest holds, the position aside
BuyRows(method, df) ==
    LET prices == Closes(df)
        rows == (analyzer_start(method) + 1)..Len(df)
    IN  CASE method = "sma_crossover" ->
               LET fast == rolling_mean(prices, Windows.sma_fast)
                   slow == rolling_mean(prices, Windows.sma_slow)
               IN  {i \in rows : FLe(fast[i - 1], slow[i - 1]) /\ FGt(fast[i], slow[i])}
          [] method = "rsi" ->
               LET rsi == calculate_rsi(prices, Windows.rsi)
               IN  {i \in rows : FLt(rsi[i], Whole(30))}
          [] method = "macd" ->
               LET macd == macd_line(prices)
                   signal == calculate_ema(macd, Windows.macd_signal)
               IN  {i \in rows : FLe(macd[i - 1], signal[i - 1]) /\ FGt(macd[i], signal[i])}
          [] method = "bollinger_bands" ->
               {i \in rows : AtOrBelowLowerBand(prices, i, Windows.bollinger)}
          [] method = "momentum" ->
               {i \in rows : prices[i] > prev_high(prices, i)}
          [] OTHER ->
               {i \in rows : df[i].month \in analyzer_best_months(df) /\ df[i].day <= 5}

\* the rows on which the SELL test of an indicator backtest holds
SellRows(method, df) ==
    LET prices == Closes(df)
        rows == (analyzer_start(method) + 1)..Len(df)
    IN  CASE method = "sma_crossover" ->
               LET fast == rolling_mean(prices, Windows.sma_fast)
                   slow == rolling_mean(prices, Windows.sma_slow)
               IN  {i \in rows : FGe(fast[i - 1], slow[i - 1]) /\ FLt(fast[i], slow[i])}
          [] method = "rsi" ->
               LET rsi == calculate_rsi(prices, Windows.rsi)
               IN  {i \in rows : FGt(rsi[i], Whole(70))}
          [] method = "macd" ->
               LET macd == macd_line(prices)
                   signal == calculate_ema(macd, Windows.macd_signal)
               IN  {i \in rows : FGe(macd[i - 1], signal[i - 1]) /\ FLt(macd[i], signal[i])}
          [] method = "bollinger_bands" ->
               {i \in rows : AtOrAboveUpperBand(prices, i, Windows.bollinger)}
          [] OTHER -> {}

\* Close < entry_price * 0.92
StopLoss8(close, entry_price) == 100 * close < 92 * entry_price

\* Variant: a BUY is made whatever the position.
CanBuy_always(position) == TRUE

\* "position == 0"
CanBuy(position) == FEq(position, Whole(0))

\* "position > 0"
Holding(position) == FGt(position, Whole(0))

AnalyzerBuy(acc, row, reason) ==
    [acc EXCEPT !.position = FDiv(acc.cash, Whole(row.Close)),
                !.entry_price = row.Close,
                !.trades = Append(@, [type |-> "BUY", price |-> row.Close,
                                      reason |-> reason]),
                !.cash = Whole(0)]

AnalyzerSell(acc, row, reason) ==
    [acc EXCEPT !.cash = FMul(acc.position, Whole(row.Close)),
                !.trades = Append(@, [type |-> "SELL", price |-> row.Close,
                                      value |-> round2(FMul(acc.position,
                                                            Whole(row.Close))),
                                      reason |-> reason]),
                !.position = Whole(0)]

\* one iteration of the loop of a backtest
AnalyzerRow(ctx, i, acc) ==
    LET row == ctx.df[i]
        prices == Closes(ctx.df)
    IN  IF i \in ctx.buys /\ CanBuy(acc.position)
        THEN AnalyzerBuy(acc, row, "BUY signal")
        ELSE IF ctx.method \in {"sma_crossover", "rsi", "macd", "bollinger_bands"}
        THEN IF i \in ctx.sells /\ Holding(acc.position)
             THEN AnalyzerSell(acc, row, "SELL signal")
             ELSE acc
        ELSE IF ~Holding(acc.position) THEN acc
        ELSE IF ctx.method = "momentum"
        THEN IF StopLoss8(row.Close, acc.entry_price)
             THEN AnalyzerSell(acc, row, "8% Stop Loss")
             ELSE IF row.Close < prev_low(prices, i)
             THEN AnalyzerSell(acc, row, "20-Day Low Breakdown")
             ELSE acc
        ELSE IF StopLoss8(row.Close, acc.entry_price)
             THEN AnalyzerSell(acc, row, "8% Stop Loss")
             ELSE IF row.month \notin ctx.best /\ row.day <= 5
             THEN AnalyzerSell(acc, row, "End of Favorable Month")
             ELSE acc

RECURSIVE AnalyzerRows(_, _, _)
AnalyzerRows(ctx, i, acc) ==
    IF i > Len(ctx.df) THEN acc
    ELSE LET next == AnalyzerRow(ctx, i, acc)
         IN  AnalyzerRows(ctx, i + 1, next)

\* a backtest up to its call of _analyze_trades: the trade list
backtest_trades(method, df, capital) ==
    LET ctx == [method |-> method, df |-> df, buys |-> BuyRows(method, df),
                sells |-> SellRows(method, df),
                best |-> IF method = "monthly_seasonal"
                         THEN analyzer_best_months(df) ELSE {}]
        acc == AnalyzerRows(ctx, analyzer_start(method) + 1,
                            [position |-> Whole(0), cash |-> Whole(capital),
                             entry_price |-> 0, trades |-> <<>>])
    IN  IF Holding(acc.position)
        THEN AnalyzerSell(acc, df[Len(df)], "End of period").trades
        ELSE acc.trades

\* validate_trade_sequence: the number of errors found
RECURSIVE SequenceErrors(_, _)
SequenceErrors(trades, position_open) ==
    IF trades = <<>> THEN 0
    ELSE IF Head(trades).type = "BUY"
    THEN (IF position_open THEN 1 ELSE 0) + SequenceErrors(Tail(trades), TRUE)
    ELSE (IF position_open THEN 0 ELSE 1) + SequenceErrors(Tail(trades), FALSE)

validate_trade_sequence(trades, enforce_buy_first) ==
    IF ~enforce_buy_first THEN TRUE
    ELSE SequenceErrors(trades, FALSE) = 0

\* _analyze_trades: the 'error' of the result, None when there is none
analyze_trades_error(trades, enforce_buy_first) ==
    LET is_valid == validate_trade_sequence(trades, enforce_buy_first)
    IN  IF trades = <<>> THEN "No trades executed"
        ELSE IF ~is_valid /\ enforce_buy_first
        THEN "Trade sequence validation failed"
        ELSE None

\* the result keys of analyze_all_strategies, in the order of the dict
StrategyKeys == <<"buyHold", "smaCrossover", "rsi", "macd", "bollingerBands",
                  "momentum", "monthlySeasonal">>

\* ((final_value - self.capital) / self.capital) * 100 with a numpy
\* final_value: a division by zero yields NaN or an infinity
total_return(final_value, capital) ==
    LET gain == FSub(final_value, Whole(capital))
        ratio == FDiv(gain, Whole(capital))
    IN  FMul(ratio, Whole(100))

\* backtest_buy_hold: 'totalReturn' (shares and final_value are numpy floats)
buy_hold_totalReturn(df, capital) ==
    LET entry_price == df[1].Close
        exit_price == df[Len(df)].Close
        shares == Fin(capital, entry_price)
        final_value == FMul(shares, Whole(exit_price))
    IN  round2(total_return(final_value, capital))

\* _analyze_trades divides Python numbers when the last trade is not a SELL
\* (final_value = self.capital): ZeroDivisionError for capital = 0
analyze_trades_raises(trades, enforce_buy_first, capital) ==
    /\ analyze_trades_error(trades, enforce_buy_first) = None
    /\ trades[Len(trades)].type # "SELL"
    /\ capital = 0

\* _analyze_trades: 'totalReturn' of the result
analyze_trades_totalReturn(trades, enforce_buy_first, capital) ==
    IF analyze_trades_error(trades, enforce_buy_first) # None THEN Whole(0)
    ELSE LET final_value == IF trades[Len(trades)].type = "SELL"
                            THEN trades[Len(trades)].value
                            ELSE Whole(capital)
         IN  round2(total_return(final_value, capital))

\* strategies['buyHold'] = self.backtest_buy_hold(df)
BacktestBuyHold ==
    /\ analyzer # Idle /\ analyzer.pc = 0 /\ ~analyzer.raised
    /\ analyzer' = [analyzer EXCEPT
                      !.pc = 1,
                      !.totalReturn = <<buy_hold_totalReturn(analyzer.df,
                                                             analyzer.capital)>>]
    /\ UNCHANGED <<dbVars, importVars, toolVars, force, ApiUsageLogs,
                   IndexApiUsageLogs, safety, indicators, strategy, seasonal, fetcher>>

\* analyze_all_strategies runs the backtests in this order
RunBacktest(k) ==
    /\ analyzer # Idle /\ analyzer.pc = k /\ ~analyzer.raised
    /\ \E trades \in {backtest_trades(AnalyzerMethods[k], analyzer.df,
                                       analyzer.capital)} :
       LET raises == analyze_trades_raises(trades, analyzer.enforce_buy_first,
                                           analyzer.capital)
       IN  analyzer' = [analyzer EXCEPT
                          !.pc = k + 1,
                          !.method = AnalyzerMethods[k],
                          !.trades = trades,
                          !.raised = raises,
                          !.totalReturn =
                             IF raises THEN @
                             ELSE Append(@, analyze_trades_totalReturn(
                                               trades, analyzer.enforce_buy_first,
                                               analyzer.capital)),
                          !.error = analyze_trades_error(trades,
                                                         analyzer.enforce_buy_first)]
    /\ UNCHANGED <<dbVars, importVars, toolVars, force, ApiUsageLogs,
                   IndexApiUsageLogs, safety, indicators, strategy, seasonal, fetcher>>

backtest_sma_crossover == RunBacktest(1)
backtest_rsi == RunBacktest(2)
backtest_macd == RunBacktest(3)
backtest_bollinger_bands == RunBacktest(4)
backtest_momentum == RunBacktest(5)
backtest_monthly_seasonal == RunBacktest(6)

\* ISLT of list.sort on the keys: x < y, False when either is NaN
IsLess(x, y) == FLt(x, y)

\* list.sort's binary insertion of the item pivot into the sorted items:
\* the search keeps l..r, "if ISLT(pivot, *p) r = p; else l = p + 1"
RECURSIVE InsertionPoint(_, _, _, _, _)
InsertionPoint(keys, items, pivot, l, r) ==
    IF l >= r THEN l
    ELSE LET p == l + ((r - l) \div 2)
         IN  IF IsLess(keys[pivot], keys[items[p]])
             THEN InsertionPoint(keys, items, pivot, l, p)
             ELSE InsertionPoint(keys, items, pivot, p + 1, r)
InsertItem(keys, items, pivot) ==
    LET at == InsertionPoint(keys, items, pivot, 1, Len(items) + 1)
    IN  SubSeq(items, 1, at - 1) \o <<pivot>> \o SubSeq(items, at, Len(items))
RECURSIVE BinarySort(_, _, _)
BinarySort(keys, items, n) ==
    IF n = 0 THEN <<>>
    ELSE LET head == BinarySort(keys, items, n - 1)
         IN  InsertItem(keys, head, items[n])
Reversed(items) == [i \in 1..Len(items) |-> items[Len(items) + 1 - i]]

\* sorted(strategies.items(), key=totalReturn, reverse=True) as positions
\* of StrategyKeys: list.sort reverses the list, sorts it ascending and
\* stable (a binary insertion sort for fewer than 64 items), and reverses
\* the result
strategies_sorted(keys) ==
    LET items == Reversed([i \in 1..Len(keys) |-> i])
        ascending == BinarySort(keys, items, Len(items))
    IN  Reversed(ascending)

\* Variant: the last item of strategies_sorted is taken.
best_strategy_last(sorted) == sorted[Len(sorted)]

\* best_strategy = strategies_sorted[0]
best_strategy(sorted) == sorted[1]

\* the comparison of the strategies and the returned 'bestStrategy'
analyze_all_strategies ==
    /\ analyzer # Idle /\ analyzer.pc = 7 /\ ~analyzer.raised
    /\ LET sorted == strategies_sorted(analyzer.totalReturn)
       IN  analyzer' = [analyzer EXCEPT
                          !.pc = 8,
                          !.bestStrategy = StrategyKeys[best_strategy(sorted)]]
    /\ UNCHANGED <<dbVars, importVars, toolVars, force, ApiUsageLogs,
                   IndexApiUsageLogs, safety, indicators, strategy, seasonal, fetcher>>

InitAnalyzer ==
    /\ \E df \in AnalyzerFrames, capital \in AnalyzerCapitals,
          enforce_buy_first \in BOOLEAN :
          analyzer = [df |-> df, capital |-> capital,
                      enforce_buy_first |-> enforce_buy_first,
                      pc |-> 0, raised |-> FALSE, method |-> None,
                      trades |-> <<>>, error |-> None, totalReturn |-> <<>>,
                      bestStrategy |-> None]
    /\ DbIdle /\ YearlyColumns = Append(BaseColumns, "AnnualEPS")
    /\ ImportIdle /\ ToolsIdle
    /\ ForceIdle /\ LogsIdle /\ SafetyIdle /\ IndicatorsIdle /\ StrategyIdle
    /\ SeasonalIdle /\ FetcherIdle

NextAnalyzer ==
    \/ BacktestBuyHold
    \/ backtest_sma_crossover
    \/ backtest_rsi
    \/ backtest_macd
    \/ backtest_bollinger_bands
    \/ backtest_momentum
    \/ backtest_monthly_seasonal
    \/ analyze_all_strategies

SpecAnalyzer == InitAnalyzer /\ [][NextAnalyzer]_allVars

\* ---------------------------------------------------------------------
\* Properties of the StrategyAnalyzer backtests
\* ---------------------------------------------------------------------
\* C18: for capital > 0 (prices are strictly positive) every trade list of
\* the six signal backtests passes validate_trade_sequence: no SELL while no
\* position is open and no BUY while one is, so _analyze_trades never
\* returns the 'Trade sequence validation failed' result.
C18_TradeListsAreValid ==
    (analyzer # Idle /\ analyzer.method # None /\ analyzer.capital > 0) =>
        /\ SequenceErrors(analyzer.trades, FALSE) = 0
        /\ validate_trade_sequence(analyzer.trades, analyzer.enforce_buy_first)
        /\ analyzer.error # "Trade sequence validation failed"

\* With the validation enforced, a backtest bought, sold on its own signal or
\* stop, bought again and was closed at the end of the period.
C18_Witness ==
    /\ analyzer # Idle /\ analyzer.method # None /\ analyzer.capital > 0
    /\ analyzer.enforce_buy_first
    /\ Len(analyzer.trades) = 4
    /\ analyzer.trades[2].reason # "End of period"
    /\ analyzer.error = None

\* ---------------------------------------------------------------------
\* analyze_trading_strategy of trading_strategy_analysis.py: the monthly
\* statistics, best_months / worst_months and the seasonal backtest.  One
\* step of the model is one iteration of the backtest loop.
\*
\* The history covers the months 1..n of one year; every month has a row
\* early in the month (day 3), and at most one month has a row late in the
\* month (day 26), beside or instead of its early row.
\* ---------------------------------------------------------------------
MaxSeasonMonths == 8
WORST_MONTHS == 3
INITIAL_CAPITAL == 10000

\* the dates of a history of n months, in date order: late = 0 for no late
\* row, both = TRUE when the late month keeps its early row too
HistoryLen(n, late, both) == IF both THEN n + 1 ELSE n
HistoryDates(n, late, both) ==
    [i \in 1..HistoryLen(n, late, both) |->
        IF both /\ i > late
        THEN [month |-> i - 1, day |-> IF i = late + 1 THEN 26 ELSE 3]
        ELSE [month |-> i, day |-> IF i = late /\ ~both THEN 26 ELSE 3]]
Histories ==
    UNION {UNION {UNION {
        {[i \in 1..HistoryLen(n, late, both) |->
             [Close |-> c[i],
              month |-> HistoryDates(n, late, both)[i].month,
              day |-> HistoryDates(n, late, both)[i].day]] :
           c \in [1..HistoryLen(n, late, both) -> RowPrices]} :
        both \in (IF late = 0 THEN {FALSE} ELSE BOOLEAN)} :
        late \in 0..n} : n \in 1..MaxSeasonMonths}

\* monthly_stats: 'avgReturn' of a month, round(statistics.mean(returns), 2)
avgReturnRounded(hist, m) == RoundHundredths(avg_return(hist, m))

\* position of a month in monthly_stats_sorted, from 0: sorted() is stable,
\* so months of equal 'avgReturn' stay in calendar order
SortedRank(mstats, m) ==
    Cardinality({k \in DOMAIN mstats :
                    \/ mstats[k] > mstats[m]
                    \/ mstats[k] = mstats[m] /\ k < m})

\* monthly_stats_sorted[:4] and monthly_stats_sorted[-3:]
top_months(mstats) ==
    {m \in DOMAIN mstats : SortedRank(mstats, m) < BEST_MONTHS}
worst_months(mstats) ==
    {m \in DOMAIN mstats :
        SortedRank(mstats, m) >= Cardinality(DOMAIN mstats) - WORST_MONTHS}

\* Variant: the exit test without "month_name in worst_months".
ExitTest_no_worst(s, row) ==
    s.in_position /\ (row.month \notin s.best_months /\ row.day <= 5)

\* in_position and (month in worst_months or (month not in best_months and
\* date.day <= 5))
ExitTest(s, row) ==
    /\ s.in_position
    /\ \/ row.month \in s.worst_months
       \/ row.month \notin s.best_months /\ row.day <= 5

\* month in best_months and not in_position and capital > 0
EntryTest(s, row) ==
    /\ row.month \in s.best_months
    /\ ~s.in_position
    /\ FGt(s.capital, Whole(0))

\* one iteration of the backtest loop
SeasonalBar ==
    /\ seasonal # Idle /\ seasonal.pc = "loop" /\ seasonal.i <= Len(seasonal.hist)
    /\ LET s == seasonal
           row == s.hist[s.i]
           after ==
             IF EntryTest(s, row)
             THEN IF row.day <= 5
                  THEN [s EXCEPT
                         !.position = FDiv(s.capital, Whole(row.Close)),
                         !.position_price = row.Close,
                         !.in_position = TRUE,
                         !.trades = Append(@, [type |-> "BUY", price |-> row.Close,
                                               month |-> row.month]),
                         !.capital = Whole(0)]
                  ELSE s
             ELSE IF ExitTest(s, row)
             THEN [s EXCEPT
                    !.capital = FMul(s.position, Whole(row.Close)),
                    !.trades = Append(@, [type |-> "SELL", price |-> row.Close,
                                          month |-> row.month]),
                    !.position = Whole(0),
                    !.in_position = FALSE]
             ELSE s
       IN  seasonal' = [after EXCEPT
                          !.i = s.i + 1,
                          !.last = [processed |-> TRUE, was_in_position |-> s.in_position,
                                    month |-> row.month, Close |-> row.Close,
                                    entry_price |-> s.position_price,
                                    trades_before |-> Len(s.trades)]]
    /\ UNCHANGED <<dbVars, importVars, toolVars, force, ApiUsageLogs,
                   IndexApiUsageLogs, safety, indicators, strategy, analyzer, fetcher>>

\* the monthly analysis: 'avgReturn' of every month that has a return
MonthlyAnalysis ==
    /\ seasonal # Idle /\ seasonal.pc = "analysis"
    /\ seasonal' = [seasonal EXCEPT
                      !.pc = "months",
                      !.monthly_stats =
                         [m \in MonthsWithDailyReturn(seasonal.hist) |->
                             avgReturnRounded(seasonal.hist, m)]]
    /\ UNCHANGED <<dbVars, importVars, toolVars, force, ApiUsageLogs,
                   IndexApiUsageLogs, safety, indicators, strategy, analyzer, fetcher>>

\* "Define best and worst months"
DefineMonths ==
    /\ seasonal # Idle /\ seasonal.pc = "months"
    /\ seasonal' = [seasonal EXCEPT
                      !.pc = "loop",
                      !.best_months = top_months(seasonal.monthly_stats),
                      !.worst_months = worst_months(seasonal.monthly_stats)]
    /\ UNCHANGED <<dbVars, importVars, toolVars, force, ApiUsageLogs,
                   IndexApiUsageLogs, safety, indicators, strategy, analyzer, fetcher>>

NoSeasonalBar ==
    [processed |-> FALSE, was_in_position |-> FALSE, month |-> 0, Close |-> 0,
     entry_price |-> 0, trades_before |-> 0]

\* "if in_position:" after the loop: the final SELL at the last close
SeasonalClose ==
    /\ seasonal # Idle /\ seasonal.pc = "loop" /\ seasonal.i > Len(seasonal.hist)
    /\ LET s == seasonal
           row == s.hist[Len(s.hist)]
       IN  seasonal' =
             IF s.in_position
             THEN [s EXCEPT
                    !.capital = FMul(s.position, Whole(row.Close)),
                    !.trades = Append(@, [type |-> "SELL (Final)", price |-> row.Close,
                                          month |-> row.month]),
                    !.pc = "done", !.last = NoSeasonalBar]
             ELSE [s EXCEPT !.pc = "done", !.last = NoSeasonalBar]
    /\ UNCHANGED <<dbVars, importVars, toolVars, force, ApiUsageLogs,
                   IndexApiUsageLogs, safety, indicators, strategy, analyzer, fetcher>>

InitSeasonal ==
    /\ \E hist \in Histories :
          seasonal = [hist |-> hist, monthly_stats |-> <<>>,
                      best_months |-> {}, worst_months |-> {},
                      capital |-> Whole(INITIAL_CAPITAL), position |-> Whole(0),
                      position_price |-> 0, in_position |-> FALSE,
                      trades |-> <<>>, i |-> 1, pc |-> "analysis",
                      last |-> NoSeasonalBar]
    /\ DbIdle /\ YearlyColumns = Append(BaseColumns, "AnnualEPS")
    /\ ImportIdle /\ ToolsIdle
    /\ ForceIdle /\ LogsIdle /\ SafetyIdle /\ IndicatorsIdle /\ StrategyIdle
    /\ AnalyzerIdle /\ FetcherIdle

NextSeasonal == MonthlyAnalysis \/ DefineMonths \/ SeasonalBar \/ SeasonalClose

SpecSeasonal == InitSeasonal /\ [][NextSeasonal]_allVars

\* ---------------------------------------------------------------------
\* Properties of the seasonal backtest
\* ---------------------------------------------------------------------
\* C19: the advertised '-8% from entry' stop-loss is enforced: a position
\* open on entering a bar whose close is more than 8% below its entry price
\* is exited on that bar, so no position is carried past such a bar.
C19_StopLossEnforced ==
    (seasonal # Idle /\ seasonal.last.processed /\ seasonal.last.was_in_position
       /\ StopLoss8(seasonal.last.Close, seasonal.last.entry_price)) =>
        ~seasonal.in_position

\* What the loop does instead: a position is exited only on a bar of a worst
\* month or on an early bar of a month that is not a best month.
C19_ExitsOnlyByCalendar ==
    (seasonal # Idle /\ seasonal.last.processed /\ seasonal.last.was_in_position) =>
        (~seasonal.in_position <=>
            \/ seasonal.last.month \in seasonal.worst_months
            \/ /\ seasonal.last.month \notin seasonal.best_months
               /\ seasonal.hist[seasonal.i - 1].day <= 5)

Disjoint(A, B) == A \cap B = {}

\* C20: whenever best_months and worst_months are disjoint, after
\* processing any bar dated in a worst month no position is open: a position
\* open on entering the bar is sold on it, and none is bought on it.
C20_CashInWorstMonths ==
    (seasonal # Idle /\ seasonal.last.processed
       /\ Disjoint(seasonal.best_months, seasonal.worst_months)
       /\ seasonal.last.month \in seasonal.worst_months) =>
        /\ ~seasonal.in_position
        /\ seasonal.last.was_in_position =>
              /\ Len(seasonal.trades) = seasonal.last.trades_before + 1
              /\ seasonal.trades[Len(seasonal.trades)].type = "SELL"
        /\ ~seasonal.last.was_in_position =>
              Len(seasonal.trades) = seasonal.last.trades_before

\* With disjoint best and worst months, a position bought in a best month
\* was sold on a late bar of a worst month.
C20_Witness ==
    /\ seasonal # Idle /\ seasonal.last.processed
    /\ Disjoint(seasonal.best_months, seasonal.worst_months)
    /\ seasonal.worst_months # {}
    /\ seasonal.last.month \in seasonal.worst_months
    /\ seasonal.last.was_in_position
    /\ seasonal.hist[seasonal.i - 1].day > 5
    /\ ~seasonal.in_position

\* ---------------------------------------------------------------------
\* Properties of strategy_seasonal's exit rule
\* ---------------------------------------------------------------------
\* a bar of strategy_seasonal on which a position was open, was not stopped
\* out, and the exit test (another month, or day >= 25) was true
SeasonalExitBar ==
    /\ strategy # Idle /\ strategy.name = "seasonal" /\ strategy.pc = "loop"
    /\ strategy.last.was_open /\ strategy.last.exit /\ ~strategy.last.stop

\* C21: in strategy_seasonal an open position that is not stopped out is
\* sold on the first bar that has day-of-month >= 25 within the entry month
\* or falls in another month than the entry month.
C21_ExitAtMonthEndOrNextMonth ==
    SeasonalExitBar =>
        /\ ~strategy.position.open
        /\ Len(strategy.trades) = strategy.last.trades_before + 1
        /\ strategy.trades[Len(strategy.trades)].type = "SELL"

\* What the loop does: a position still open after such a bar was carried
\* past a bar of its entry month with day >= 25; in another month it is sold.
C21_SoldOnlyInAnotherMonth ==
    SeasonalExitBar =>
        IF strategy.position.open
        THEN /\ strategy.df[strategy.i - 1].month = strategy.position.entry_month
             /\ strategy.df[strategy.i - 1].day >= 25
             /\ Len(strategy.trades) = strategy.last.trades_before
        ELSE /\ Len(strategy.trades) = strategy.last.trades_before + 1
             /\ strategy.trades[Len(strategy.trades)].reason = "End of month"
             /\ strategy.trades[strategy.last.trades_before].type = "BUY"

\* ---------------------------------------------------------------------
\* Properties of analyze_all_strategies
\* ---------------------------------------------------------------------
\* analyze_all_strategies has returned its result
Compared == analyzer # Idle /\ analyzer.pc = 8

BestReturn == analyzer.totalReturn[CHOOSE k \in 1..Len(StrategyKeys) :
                                      StrategyKeys[k] = analyzer.bestStrategy]

\* C22: bestStrategy is the key of a strategy whose totalReturn is greater
\* than or equal to the totalReturn of every other strategy of the result.
C22_BestStrategyHasGreatestReturn ==
    Compared =>
        \A k \in 1..Len(StrategyKeys) :
            StrategyKeys[k] # analyzer.bestStrategy =>
                FGe(BestReturn, analyzer.totalReturn[k])

\* C22 for a capital other than 0, where every totalReturn is a number: the
\* best strategy has the greatest totalReturn, and is the first such key.
C22_BestStrategyForNonZeroCapital ==
    (Compared /\ analyzer.capital # 0) =>
        /\ \A k \in 1..Len(StrategyKeys) : analyzer.totalReturn[k].kind = "fin"
        /\ \A k \in 1..Len(StrategyKeys) :
              FGe(BestReturn, analyzer.totalReturn[k])
        /\ \A k \in 1..Len(StrategyKeys) :
              FEq(BestReturn, analyzer.totalReturn[k]) =>
                 best_strategy(strategies_sorted(analyzer.totalReturn)) <= k

\* With capital 0 the buy-and-hold totalReturn is NaN and comes first.
C22_NaNComesFirst ==
    (Compared /\ analyzer.capital = 0) =>
        /\ analyzer.bestStrategy = "buyHold"
        /\ analyzer.totalReturn[1] = NaN

\* A signal strategy beat buy-and-hold and at least one other strategy lost
\* money: the sort moved it to the front.
C22_Witness ==
    /\ Compared /\ analyzer.capital # 0
    /\ analyzer.bestStrategy # "buyHold"
    /\ FGt(BestReturn, analyzer.totalReturn[1])
    /\ \E k \in 1..Len(StrategyKeys) : FLt(analyzer.totalReturn[k], Whole(0))

(* ---------------------------------------------------------------------- *)
(* IndexDataFetcher of fetch_index_data.py: one run of process_all_indices *)
(* over MARKET_INDICES.  One step of the model is one iteration of the     *)
(* loop.  IndexHistory holds, per symbol, which rows the connection sees:  *)
(* "none", "old" (stored by an earlier run), "new" (stored by this run) or *)
(* "partial" (deleted by this run, then an INSERT failed).                 *)
(* ---------------------------------------------------------------------- *)
MARKET_INDICES == <<"^GSPC", "^DJI", "^IXIC", "^GSPTSE">>

\* the symbols that IndexData holds when the run starts
StoredIndices == {{}, {"^GSPC", "^IXIC"}, {"^GSPC", "^DJI", "^IXIC", "^GSPTSE"}}

FetchOutcomes == {"data", "no_data", "exception"}
HistoryFaults == {"none", "error_delete", "error_insert"}

\* index_exists: the Id of the row, None when there is none or on an error
index_exists(f, symbol, fault) ==
    IF fault \/ symbol \notin f.IndexData THEN None ELSE symbol

\* update_index: False on an exception
update_index(fault) == ~fault

\* insert_index: None on an exception; Symbol is UNIQUE
insert_index(f, symbol, fault) ==
    IF fault \/ symbol \in f.IndexData THEN None ELSE symbol

\* insert_historical_data: DELETE the rows of the symbol, INSERT the new ones
insert_historical_data(history, symbol, fault) ==
    CASE fault = "none" -> [history EXCEPT ![symbol] = "new"]
      [] fault = "error_insert" -> [history EXCEPT ![symbol] = "partial"]
      [] OTHER -> history

\* Variant: the symbol is listed without failed_count being incremented.
CountFailed_unlisted(f, symbol) ==
    [f EXCEPT !.failed_symbols = Append(@, symbol)]

\* "self.failed_count += 1; self.failed_symbols.append(symbol)"
CountFailed(f, symbol) ==
    [f EXCEPT !.failed_count = @ + 1, !.failed_symbols = Append(@, symbol)]

\* the log rows after log_api_usage: an exception is only printed
LoggedUsage(logs, symbol, success, error_msg, records_fetched, fault) ==
    IF fault THEN logs
    ELSE InsertLog(logs, LogRow(Len(logs) + 1, symbol, "Yahoo Finance", success,
                                error_msg, records_fetched))

\* what one iteration did, for the properties
IterationRecord(symbol, counted, stored, logged) ==
    [symbol |-> symbol, counted |-> counted, history_stored |-> stored,
     success_logged |-> logged]

\* one iteration of the loop of process_all_indices
ProcessIndex(exists_fault, fetch, write_fault, hist_fault, log_fault) ==
    /\ fetcher # Idle /\ fetcher.pc = "loop" /\ fetcher.idx < Len(MARKET_INDICES)
    /\ LET f == fetcher
           count == f.idx + 1
           symbol == MARKET_INDICES[count]
           index_id == index_exists(f, symbol, exists_fault)
           fetch_logs == IF fetch = "exception"
                         THEN LoggedUsage(IndexApiUsageLogs, symbol, FALSE, "error", 0,
                                          log_fault)
                         ELSE IndexApiUsageLogs
           slept == [f EXCEPT !.idx = count,
                              !.sleeps = IF count < Len(MARKET_INDICES) THEN @ + 1 ELSE @]
           stored == [slept EXCEPT
                        !.IndexHistory = insert_historical_data(@, symbol, hist_fault)]
           stored_logs == LoggedUsage(IndexApiUsageLogs, symbol, TRUE, None, 250,
                                      log_fault)
           did_store == hist_fault # "error_delete"
       IN  IF fetch # "data"
           THEN /\ fetcher' = [CountFailed(slept, symbol) EXCEPT
                                 !.done = Append(@, IterationRecord(symbol, "failed",
                                                                    FALSE, FALSE))]
                /\ IndexApiUsageLogs' = fetch_logs
           ELSE IF index_id # None
           THEN IF update_index(write_fault)
                THEN /\ fetcher' = [stored EXCEPT
                                      !.updated_count = @ + 1,
                                      !.done = Append(@, IterationRecord(
                                                  symbol, "updated", did_store,
                                                  ~log_fault))]
                     /\ IndexApiUsageLogs' = stored_logs
                ELSE /\ fetcher' = [CountFailed(stored, symbol) EXCEPT
                                      !.done = Append(@, IterationRecord(
                                                  symbol, "failed", did_store,
                                                  ~log_fault))]
                     /\ IndexApiUsageLogs' = stored_logs
           ELSE IF insert_index(f, symbol, write_fault) # None
           THEN /\ fetcher' = [stored EXCEPT
                                 !.IndexData = @ \cup {symbol},
                                 !.inserted_count = @ + 1,
                                 !.done = Append(@, IterationRecord(
                                             symbol, "inserted", did_store,
                                             ~log_fault))]
                /\ IndexApiUsageLogs' = stored_logs
           ELSE \* "continue": the rate-limiting sleep is skipped as well
                /\ fetcher' = [CountFailed([f EXCEPT !.idx = count], symbol) EXCEPT
                                 !.done = Append(@, IterationRecord(symbol, "failed",
                                                                    FALSE, FALSE))]
                /\ IndexApiUsageLogs' = IndexApiUsageLogs
    /\ UNCHANGED <<dbVars, importVars, toolVars, force, ApiUsageLogs, safety,
                   indicators, strategy, analyzer, seasonal>>

\* print_summary: "Total processed" is the sum of the three counters
print_summary ==
    /\ fetcher # Idle /\ fetcher.pc = "loop" /\ fetcher.idx = Len(MARKET_INDICES)
    /\ fetcher' = [fetcher EXCEPT
                     !.pc = "done",
                     !.total_processed = fetcher.inserted_count + fetcher.updated_count
                                           + fetcher.failed_count]
    /\ UNCHANGED <<dbVars, importVars, toolVars, force, ApiUsageLogs, IndexApiUsageLogs,
                   safety, indicators, strategy, analyzer, seasonal>>

\* IndexDataFetcher.__init__ and the tables as an earlier run left them
InitIndex ==
    /\ \E stored \in StoredIndices :
          fetcher = [IndexData |-> stored,
                     IndexHistory |-> [s \in {MARKET_INDICES[i] : i \in 1..Len(MARKET_INDICES)}
                                          |-> IF s \in stored THEN "old" ELSE "none"],
                     updated_count |-> 0, inserted_count |-> 0, failed_count |-> 0,
                     failed_symbols |-> <<>>, idx |-> 0, sleeps |-> 0, pc |-> "loop",
                     total_processed |-> 0, done |-> <<>>]
    /\ DbIdle /\ YearlyColumns = Append(BaseColumns, "AnnualEPS")
    /\ ImportIdle /\ ToolsIdle
    /\ ForceIdle /\ LogsIdle /\ SafetyIdle /\ IndicatorsIdle /\ StrategyIdle
    /\ AnalyzerIdle /\ SeasonalIdle

NextIndex ==
    \/ \E exists_fault \in BOOLEAN, fetch \in FetchOutcomes, write_fault \in BOOLEAN,
          hist_fault \in HistoryFaults, log_fault \in BOOLEAN :
          ProcessIndex(exists_fault, fetch, write_fault, hist_fault, log_fault)
    \/ print_summary

SpecIndex == InitIndex /\ [][NextIndex]_allVars

\* ---------------------------------------------------------------------
\* Properties of process_all_indices
\* ---------------------------------------------------------------------
CountedAs(kind) ==
    Cardinality({i \in DOMAIN fetcher.done : fetcher.done[i].counted = kind})
FailedSet == {fetcher.done[i].symbol :
                 i \in {k \in DOMAIN fetcher.done : fetcher.done[k].counted = "failed"}}

\* C23: after process_all_indices completes, inserted_count + updated_count
\* + failed_count equals the number of configured market indices; every
\* index incremented exactly one of the three counters, and failed_symbols
\* contains exactly the symbols counted in failed_count, each once.
C23_CountersPartitionIndices ==
    (fetcher # Idle) =>
        /\ fetcher.inserted_count + fetcher.updated_count + fetcher.failed_count
              = fetcher.idx
        /\ Len(fetcher.done) = fetcher.idx
        /\ fetcher.inserted_count = CountedAs("inserted")
        /\ fetcher.updated_count = CountedAs("updated")
        /\ fetcher.failed_count = CountedAs("failed")
        /\ Len(fetcher.failed_symbols) = fetcher.failed_count
        /\ {fetcher.failed_symbols[i] : i \in DOMAIN fetcher.failed_symbols} = FailedSet
        /\ Cardinality(FailedSet) = fetcher.failed_count
        /\ fetcher.pc = "done" =>
              /\ fetcher.idx = Len(MARKET_INDICES)
              /\ fetcher.total_processed = Len(MARKET_INDICES)

\* A finished run that inserted, updated and failed at least once each.
C23_Witness ==
    /\ fetcher # Idle /\ fetcher.pc = "done"
    /\ fetcher.inserted_count >= 1 /\ fetcher.updated_count >= 1
    /\ fetcher.failed_count = 2
    /\ Len(fetcher.failed_symbols) = 2

\* the Success = 1 rows of IndexApiUsageLogs for a symbol
SuccessRows(symbol) ==
    {i \in DOMAIN IndexApiUsageLogs :
        IndexApiUsageLogs[i].Symbol = symbol /\ IndexApiUsageLogs[i].Success = 1}

\* C24: an index counted as failed in a run has, in that run, neither its
\* IndexHistory rows replaced nor a Success = 1 row appended to
\* IndexApiUsageLogs.
C24_FailedIndexLeavesNoTrace ==
    (fetcher # Idle) =>
        \A i \in DOMAIN fetcher.done :
            fetcher.done[i].counted = "failed" =>
                /\ ~fetcher.done[i].history_stored
                /\ fetcher.IndexHistory[fetcher.done[i].symbol] \in {"none", "old"}
                /\ ~fetcher.done[i].success_logged
                /\ SuccessRows(fetcher.done[i].symbol) = {}

\* What the loop does: the history and the Success = 1 row are left out for
\* an index whose fetch or INSERT failed; an index whose UPDATE failed is
\* counted as failed and processed like an updated one.
C24_OnlyFailedUpdateLeavesTrace ==
    (fetcher # Idle) =>
        \A i \in DOMAIN fetcher.done :
            LET symbol == fetcher.done[i].symbol
                traced == \/ fetcher.done[i].history_stored
                          \/ fetcher.done[i].success_logged
                          \/ fetcher.IndexHistory[symbol] \in {"new", "partial"}
                          \/ SuccessRows(symbol) # {}
            IN  /\ (fetcher.done[i].counted = "failed" /\ traced) =>
                      /\ symbol \in fetcher.IndexData
                      /\ fetcher.IndexHistory[symbol] # "none"
                /\ fetcher.done[i].success_logged => SuccessRows(symbol) # {}
                /\ fetcher.done[i].counted \in {"inserted", "updated"} =>
                      (fetcher.done[i].history_stored
                          <=> fetcher.IndexHistory[symbol] \in {"new", "partial"})

====
